---- MODULE Spec2Model ----
(***************************************************************************)
(* Model of the /api/veo proxy of Manga-AI (backend/server.js): the        *)
(* concurrency gate (acquireVeoSlot / releaseVeoSlot / waitForVeoCooldown), *)
(* the rate-limit cooldown (setVeoCooldown), fetchWithRetry, pollOperation  *)
(* and pollVertexOperation with sleepWithCancel, and the request handler    *)
(* that ties them together.                                                 *)
(*                                                                         *)
(* Scheduling model.  Node runs one callback at a time.  An action of this *)
(* model is the code that runs from one resumption of an async function to *)
(* its next real suspension (a timer or a network call).  A continuation   *)
(* that is only queued as a promise reaction (pc "woken" or "acquired")    *)
(* runs before any timer, network or connection event: every other action  *)
(* is guarded by NoMicrotask.  Time is the value of Date.now() in ms; it   *)
(* moves in steps of one second (Tick).  A timer fires in the instant it   *)
(* is due: time does not pass while a due timer is pending, but timers due *)
(* in the same instant fire in either order, and connection and network    *)
(* events of the same instant may come before them.  A network call is     *)
(* answered only after some time has passed since it was issued (aged).    *)
(* The 250 ms slices of sleepWithCancel are counted by the code's own      *)
(* elapsed counter; they are shorter than a step of the clock.             *)
(***************************************************************************)
EXTENDS Integers, Sequences, FiniteSets, TLC

\* ---------------------------------------------------------------- bounds
NumRequests == 4
MaxSlots == 2
MaxFaults == 1
MaxAborts == 1
HandlerRequests == 2
HandlerFaults == 1
HandlerPending == 1
HandlerAborts == 1
PollFaults == 1
RetryFaults == 3
AdapterFaults == 3
PromptFaults == 3
PromptAborts == 1
UnlimitedRequests == 3
UnlimitedFaults == 1
MaxVideos == 2
MaxBuilds == 3
MaxSegments == 3
MaxFragments == 3
MaxPieces == 4
MaxChars == 3
ResultFaults == 2
ResultAborts == 1
LiveRequests == 3
LiveFaults == 1
LiveAborts == 1
CooldownRequests == 2
CooldownFaults == 2

\* ------------------------------------------------------ program constants
maxRetries == 3
maxPolls == 180
pollInterval == 5000
step == 250

Requests == 1..NumRequests
\* The handler of GET /api/models runs beside those of POST /api/veo.
ModelsClient == 0
Procs == {ModelsClient} \cup Requests

VARIABLES
  env,               \* the process environment (configuration constants)
  now,               \* Date.now()
  veoCooldownUntil,
  veoInFlight,
  veoQueue,          \* the waiters of veoQueue, oldest first
  req,               \* per handler: its position and its locals
  faults,            \* upstream failures the environment may still produce
  pending,           \* done=false answers the environment may still produce
  nextTicket,        \* history: number of veoQueue.push calls so far
  arrivals,          \* requests the environment may still send
  aborts,            \* disconnects the environment may still produce
  call,              \* the call of a function explored on its own: its
                     \* arguments and what it has returned so far
  ui                 \* the browser reader: its refs, its React state and
                     \* the generateVideo calls it has started

vars == <<env, now, veoCooldownUntil, veoInFlight, veoQueue, req, faults,
          pending, nextTicket, arrivals, aborts, call, ui>>

\* What a step of a handler leaves alone besides the gate and req.
others == <<env, now, veoCooldownUntil, faults, pending, nextTicket, arrivals, aborts,
            call, ui>>

Max(a, b) == IF a >= b THEN a ELSE b
Min(a, b) == IF a <= b THEN a ELSE b

\* Math.pow(2, attempt), for the attempts fetchWithRetry can reach.
Pow2(n) == IF n = 0 THEN 1 ELSE IF n = 1 THEN 2 ELSE IF n = 2 THEN 4 ELSE 8

\* ------------------------------------------------------------ JSON values
\* A value of a parsed JSON text with its type; the entries of an object
\* are pairs <<key, value>> in the order of Object.entries.
JsonNull == [type |-> "null"]
Str(s) == [type |-> "string", value |-> s]
Arr(items) == [type |-> "array", items |-> items]
Obj(entries) == [type |-> "object", entries |-> entries]

\* The value is truthy.
Truthy(v) == v.type # "null" /\ (v.type = "string" => v.value # "")

\* value?.[key]
Prop(v, key) ==
  IF v.type = "object" /\ \E i \in 1..Len(v.entries) : v.entries[i][1] = key
  THEN v.entries[CHOOSE i \in 1..Len(v.entries) : v.entries[i][1] = key][2]
  ELSE JsonNull

\* value?.[0]
First(v) == IF v.type = "array" /\ Len(v.items) > 0 THEN v.items[1] ELSE JsonNull

\* The value at the end of a chain of ?. accesses.
RECURSIVE At(_, _)
At(v, path) ==
  IF path = <<>> THEN v
  ELSE At(IF Head(path) = "[0]" THEN First(v) ELSE Prop(v, Head(path)), Tail(path))

\* --------------------------------------------------------- extractVideoUrl
\* The places extractVideoUrl looks at, in its order.
uriPaths ==
  << <<"generatedVideos", "[0]", "video", "uri">>,
     <<"generatedVideos", "[0]", "video", "gcsUri">>,
     <<"generatedVideos", "[0]", "gcsUri">>,
     <<"generateVideoResponse", "generatedSamples", "[0]", "video", "uri">>,
     <<"generateVideoResponse", "generatedSamples", "[0]", "video", "gcsUri">>,
     <<"video", "uri">>,
     <<"video", "gcsUri">>,
     <<"outputUri">>,
     <<"outputs", "[0]", "gcsUri">>,
     <<"outputs", "[0]", "uri">>,
     <<"predictions", "[0]", "gcsUri">>,
     <<"predictions", "[0]", "uri">>,
     <<"predictions", "[0]", "video", "gcsUri">>,
     <<"predictions", "[0]", "video", "uri">>,
     <<"predictions", "[0]", "videos", "[0]", "gcsUri">>,
     <<"predictions", "[0]", "videos", "[0]", "uri">> >>

\* value.startsWith('gs://') || value.startsWith('http'), on the strings of
\* the results explored.
StartsLikeUri(s) == s \in {"gs://bucket/video.mp4", "https://host/video.mp4"}

\* lowerKey.includes('uri') || lowerKey.includes('url'), on the keys of the
\* results explored.
NamesUri(key) == key \in {"uri", "gcsUri", "outputUri", "fileUri", "videoUrl"}

Least(set) == CHOOSE i \in set : \A j \in set : i <= j

RECURSIVE findFirstUri(_, _)
findFirstUri(value, depth) ==
  IF ~Truthy(value) \/ depth > 4 THEN JsonNull
  ELSE IF value.type = "string"
  THEN IF StartsLikeUri(value.value) THEN value ELSE JsonNull
  ELSE IF value.type = "array"
  THEN LET found == {i \in 1..Min(Len(value.items), 10) :
                       Truthy(findFirstUri(value.items[i], depth + 1))}
       IN IF found = {} THEN JsonNull
          ELSE findFirstUri(value.items[Least(found)], depth + 1)
  ELSE LET entries == value.entries
           named == {i \in 1..Len(entries) :
                       /\ entries[i][2].type = "string"
                       /\ NamesUri(entries[i][1])
                       /\ StartsLikeUri(entries[i][2].value)}
           found == {i \in 1..Len(entries) :
                       Truthy(findFirstUri(entries[i][2], depth + 1))}
       IN IF named # {} THEN entries[Least(named)][2]
          ELSE IF found = {} THEN JsonNull
          ELSE findFirstUri(entries[Least(found)][2], depth + 1)

extractVideoUrl(result) ==
  LET hits == {k \in 1..Len(uriPaths) : Truthy(At(result, uriPaths[k]))} IN
  IF ~Truthy(result) THEN JsonNull
  ELSE IF hits # {} THEN At(result, uriPaths[Least(hits)])
  ELSE findFirstUri(result, 0)

\* operation.response of the finished operations the pollers are told of.
Wrap(key, value) == Obj(<< <<key, value>> >>)
operationResponse(operation) ==
  CASE operation = "doneUri" ->
         Wrap("generatedVideos",
              Arr(<<Wrap("video", Wrap("uri", Str("https://host/video.mp4")))>>))
    [] operation = "doneSamples" ->
         Wrap("generateVideoResponse",
              Wrap("generatedSamples",
                   Arr(<<Wrap("video", Wrap("uri", Str("gs://bucket/video.mp4")))>>)))
    [] operation = "doneFileName" -> Wrap("video", Wrap("uri", Str("video.mp4")))
    [] operation = "doneNested" ->
         Obj(<< <<"raiMediaFilteredCount", Str("0")>>,
                <<"result", Wrap("files", Arr(<<Str("video.mp4"),
                                                Wrap("fileUri", Str("gs://bucket/video.mp4"))>>))>> >>)
    [] operation = "doneDeep" ->
         Wrap("a", Wrap("b", Wrap("c", Wrap("d", Wrap("e",
              Wrap("uri", Str("https://host/video.mp4")))))))
    [] operation = "doneEmptyUri" -> Wrap("video", Wrap("uri", Str("")))
    [] operation = "doneNoResponse" -> JsonNull
    [] OTHER -> Obj(<<>>)

\* extractVideoUrl(operation.response) of a finished operation; the answers
\* for the operations above are computed once.
extracted ==
  ("doneUri" :> extractVideoUrl(operationResponse("doneUri"))) @@
  ("doneSamples" :> extractVideoUrl(operationResponse("doneSamples"))) @@
  ("doneFileName" :> extractVideoUrl(operationResponse("doneFileName"))) @@
  ("doneNested" :> extractVideoUrl(operationResponse("doneNested"))) @@
  ("doneDeep" :> extractVideoUrl(operationResponse("doneDeep"))) @@
  ("doneEmptyUri" :> extractVideoUrl(operationResponse("doneEmptyUri"))) @@
  ("doneNoResponse" :> extractVideoUrl(operationResponse("doneNoResponse")))
videoUrlOf(operation) ==
  IF operation \in DOMAIN extracted THEN extracted[operation]
  ELSE extractVideoUrl(operationResponse(operation))

\* --------------------------------------------------------------- requests
InitReq ==
  [pc |-> "idle", requestCanceled |-> FALSE, imageData |-> FALSE,
   mimeType |-> FALSE, ctx |-> "none", attempt |-> 0, wakeAt |-> 0, aged |-> FALSE,
   i |-> 0, elapsed |-> 0, lastError |-> {},
   imageMode |-> "first_frame", requestBody |-> {}, triedAlternateImageMode |-> FALSE,
   status |-> 0, outcome |-> "none",
   \* history fields (never read by the modelled code)
   granted |-> 0, released |-> 0, called |-> FALSE, calledAfterCancel |-> FALSE,
   checks |-> 0, pendingSeen |-> 0, canceledWaiting |-> FALSE, ticket |-> 0,
   result |-> "none",
   \* history of the fetchWithRetry calls: attempts and 429 answers of the
   \* current call, answers received so far with the last one's status and
   \* body, errors raised so far with the last one and the attempts and 429
   \* answers of the call that raised it, the latest deadline armed and
   \* whether the last setVeoCooldown call moved the deadline
   fetches |-> 0, n429 |-> 0, answers |-> 0, lastStatus |-> 0, lastBody |-> "none",
   throws |-> 0, raised |-> {}, raisedFetches |-> 0, raised429 |-> 0, armedUntil |-> 0,
   extended |-> FALSE,
   \* history of the start calls: their number, the body of the rejected one,
   \* the number of changes of the image mode
   startCalls |-> 0, rejectedBody |-> {}, modeSwitches |-> 0,
   \* history: the kind of prompt buildPromptFromImage returned
   prompt |-> "none",
   \* history: the videoUrl of the response
   videoUrl |-> JsonNull]

\* States in which a promise reaction of the handler is queued.
Microtask(rec) == rec.pc \in {"woken", "acquired"}
NoMicrotask == \A r \in Procs : ~Microtask(req[r])

\* States in which the handler sleeps on a setTimeout tied to Date.now().
Timed(rec) == rec.pc \in {"cooldownDirect", "cooldownWoken", "sleep429", "backoff"}
DueTimer == \E r \in Procs : Timed(req[r]) /\ req[r].wakeAt <= now

\* States in which the request waits inside acquireVeoSlot.
Waiting(rec) == rec.pc \in {"cooldownDirect", "queued", "woken", "cooldownWoken"}

\* ------------------------------------------------------------------ errors
\* An error is the set of the substrings its message contains, among those
\* the code tests for.
CanceledError == {"canceled by client"}
TimeoutError == {"timed out"}

\* The fields an upstream message can name as `<field>` isn't supported.
NamedFields == {"referenceImages", "personGeneration", "resolution", "imageBytes"}
Backtick(f) ==
  CASE f = "referenceImages" -> "`referenceImages` isn't supported"
    [] f = "personGeneration" -> "`personGeneration` isn't supported"
    [] f = "resolution" -> "`resolution` isn't supported"
    [] OTHER -> "`imageBytes` isn't supported"

isUnsupportedImageError(err) ==
  err \cap {"`imageBytes` isn't supported", "imageBytes isn't supported",
            "inlineData isn't supported"} # {}

\* The fields a message can name before the words "not supported".
GenericFields == {"personGeneration", "numberOfVideos", "aspectRatio", "resolution"}
Generic(f) ==
  CASE f = "personGeneration" -> "personGeneration ... not supported"
    [] f = "numberOfVideos" -> "numberOfVideos ... not supported"
    [] f = "aspectRatio" -> "aspectRatio ... not supported"
    [] OTHER -> "resolution ... not supported"

getUnsupportedField(err) ==
  IF \E f \in NamedFields : Backtick(f) \in err
  THEN CHOOSE f \in NamedFields : Backtick(f) \in err
  ELSE IF "for personGeneration is currently not supported" \in err
  THEN "personGeneration"
  ELSE IF \E f \in GenericFields : Generic(f) \in err
  THEN CHOOSE f \in GenericFields : Generic(f) \in err
  ELSE "null"

\* ---------------------------------------------------------------- the gate
\* Faulty variant of setVeoCooldown: the deadline is overwritten.
setVeoCooldown_Overwrite(ms) ==
  IF ms <= 0 THEN veoCooldownUntil ELSE now + ms

setVeoCooldown(ms) ==
  IF ms <= 0 THEN veoCooldownUntil ELSE Max(veoCooldownUntil, now + ms)

\* Faulty variant of releaseVeoSlot: the waiter is woken only if the counter
\* was below the limit before the slot was given back.
releaseVeoSlot_StaleCount(rq) ==
  IF env.VEO_MAX_CONCURRENT < 1
  THEN [req |-> rq, inFlight |-> veoInFlight, queue |-> veoQueue]
  ELSE LET n == Max(0, veoInFlight - 1) IN
       IF Len(veoQueue) > 0 /\ veoInFlight < env.VEO_MAX_CONCURRENT
       THEN [req |-> [rq EXCEPT ![Head(veoQueue)].pc = "woken"],
             inFlight |-> n, queue |-> Tail(veoQueue)]
       ELSE [req |-> rq, inFlight |-> n, queue |-> veoQueue]

\* releaseVeoSlot, applied to the handlers rq: the new counter, the new queue
\* and rq with the dequeued waiter's promise resolved.
releaseVeoSlot(rq) ==
  IF env.VEO_MAX_CONCURRENT < 1
  THEN [req |-> rq, inFlight |-> veoInFlight, queue |-> veoQueue]
  ELSE LET n == Max(0, veoInFlight - 1) IN
       IF Len(veoQueue) > 0 /\ n < env.VEO_MAX_CONCURRENT
       THEN [req |-> [rq EXCEPT ![Head(veoQueue)].pc = "woken"],
             inFlight |-> n, queue |-> Tail(veoQueue)]
       ELSE [req |-> rq, inFlight |-> n, queue |-> veoQueue]

\* A step of handler r that ends in the record lr.rec, having called
\* releaseVeoSlot iff lr.rel.
Commit(r, lr) ==
  LET rq == [req EXCEPT ![r] = lr.rec] IN
  IF lr.rel
  THEN LET out == releaseVeoSlot(rq) IN
       /\ req' = out.req
       /\ veoInFlight' = out.inFlight
       /\ veoQueue' = out.queue
  ELSE /\ req' = rq
       /\ UNCHANGED <<veoInFlight, veoQueue>>

Stay(rec) == [rec |-> rec, rel |-> FALSE]

\* Faulty variant of CatchHandler: a rate-limit error is answered like any
\* other error.
CatchHandler_No429(rec, err) ==
  LET e == [rec EXCEPT !.lastError = err] IN
  IF rec.requestCanceled \/ "canceled by client" \in err
  THEN [rec |-> [e EXCEPT !.pc = "done", !.status = 0, !.outcome = "canceled",
                          !.released = @ + 1], rel |-> TRUE]
  ELSE IF isUnsupportedImageError(err)
  THEN [rec |-> [e EXCEPT !.pc = "done", !.status = 400, !.outcome = "failed",
                          !.released = @ + 1], rel |-> TRUE]
  ELSE [rec |-> [e EXCEPT !.pc = "done", !.status = 500, !.outcome = "failed",
                          !.released = @ + 1], rel |-> TRUE]

\* Faulty variant of Done: the handler returns without releaseVeoSlot.
Done_NoRelease(rec, status, outcome) ==
  [rec |-> [rec EXCEPT !.pc = "done", !.status = status, !.outcome = outcome],
   rel |-> FALSE]

\* The handler of /api/veo returns through releaseVeoSlot, having answered
\* with the HTTP status (0: no response was sent).
Done(rec, status, outcome) ==
  [rec |-> [rec EXCEPT !.pc = "done", !.status = status, !.outcome = outcome,
                       !.released = @ + 1],
   rel |-> TRUE]

\* A handler that holds no slot answers and returns.
Answer(rec, status, outcome) ==
  [rec |-> [rec EXCEPT !.pc = "done", !.status = status, !.outcome = outcome],
   rel |-> FALSE]

\* The catch block of the handler of /api/veo, then its finally block.
CatchHandler(rec, err) ==
  LET e == [rec EXCEPT !.lastError = err] IN
  IF rec.requestCanceled \/ "canceled by client" \in err
  THEN Done(e, 0, "canceled")
  ELSE IF "429" \in err THEN Done(e, 429, "rate_limited")
  ELSE IF isUnsupportedImageError(err) THEN Done(e, 400, "failed")
  ELSE Done(e, 500, "failed")


\* ------------------------------------------------------- the handler's code
\* fetch(url, options) is called: the first attempt of a fetchWithRetry.
IssueFetch(rec, c) ==
  [rec EXCEPT !.pc = "fetch", !.ctx = c, !.attempt = 0, !.aged = FALSE,
              !.called = TRUE,
              !.calledAfterCancel = @ \/ rec.requestCanceled,
              !.fetches = 1, !.n429 = 0,
              !.startCalls = IF c \in {"start", "startRetry"} THEN @ + 1 ELSE @]

\* fetch(url, options) is called again by the loop of fetchWithRetry.
Refetch(rec) ==
  [rec EXCEPT !.pc = "fetch", !.aged = FALSE,
              !.calledAfterCancel = @ \/ rec.requestCanceled,
              !.fetches = @ + 1]

\* A call of the Vertex path: getAccessToken, then a plain fetch.
IssueVertex(rec, c) ==
  [rec EXCEPT !.pc = "vfetch", !.ctx = c, !.aged = FALSE,
              !.called = TRUE,
              !.calledAfterCancel = @ \/ rec.requestCanceled]

\* Faulty variant of PollIteration: the loop gives up one iteration early.
PollIteration_ShortLoop(rec) ==
  IF rec.i < maxPolls - 1
  THEN IF rec.requestCanceled
       THEN CatchHandler(rec, CanceledError)
       ELSE IF env.VEO_PROVIDER = "vertex"
       THEN Stay([IssueVertex(rec, "vertexPoll") EXCEPT !.checks = @ + 1])
       ELSE Stay([IssueFetch(rec, "poll") EXCEPT !.checks = @ + 1])
  ELSE CatchHandler(rec, TimeoutError)

\* Faulty variant of PollIteration: the loop runs one iteration too many.
PollIteration_LongLoop(rec) ==
  IF rec.i <= maxPolls
  THEN IF rec.requestCanceled
       THEN CatchHandler(rec, CanceledError)
       ELSE IF env.VEO_PROVIDER = "vertex"
       THEN Stay([IssueVertex(rec, "vertexPoll") EXCEPT !.checks = @ + 1])
       ELSE Stay([IssueFetch(rec, "poll") EXCEPT !.checks = @ + 1])
  ELSE CatchHandler(rec, TimeoutError)

\* One iteration of the loop of pollOperation (pollVertexOperation), up to
\* its status check.
PollIteration(rec) ==
  IF rec.i < maxPolls
  THEN IF rec.requestCanceled
       THEN CatchHandler(rec, CanceledError)
       ELSE IF env.VEO_PROVIDER = "vertex"
       THEN Stay([IssueVertex(rec, "vertexPoll") EXCEPT !.checks = @ + 1])
       ELSE Stay([IssueFetch(rec, "poll") EXCEPT !.checks = @ + 1])
  ELSE CatchHandler(rec, TimeoutError)

\* Faulty variant of SleepIteration: sleepWithCancel never asks shouldCancel.
SleepIteration_NoCancel(rec) ==
  IF rec.elapsed < pollInterval
  THEN Stay([rec EXCEPT !.pc = "pollSleep", !.aged = FALSE])
  ELSE PollIteration([rec EXCEPT !.i = @ + 1])

\* One iteration of the loop of sleepWithCancel, up to its sleep; the loop
\* over, the poller goes on with its next iteration.
SleepIteration(rec) ==
  IF rec.elapsed < pollInterval
  THEN IF rec.requestCanceled
       THEN CatchHandler(rec, CanceledError)
       ELSE Stay([rec EXCEPT !.pc = "pollSleep", !.aged = FALSE])
  ELSE PollIteration([rec EXCEPT !.i = @ + 1])

\* The tested substrings of operation.error.message: "doneErrorCode" is a
\* message that ends with a numeric support code holding the digits 429.
OperationError(operation) ==
  IF operation = "doneErrorCode" THEN {"upstream message", "429"}
  ELSE {"upstream message"}

\* Faulty variant of PollStatus: the response is sent whatever extractVideoUrl
\* returned.
PollStatus_NoUrlCheck(rec, operation) ==
  IF operation = "pendingOp"
  THEN SleepIteration([rec EXCEPT !.elapsed = 0, !.pendingSeen = @ + 1])
  ELSE IF operation \in {"doneError", "doneErrorCode"}
  THEN CatchHandler(rec, OperationError(operation))
  ELSE IF operation = "badJson"
  THEN CatchHandler(rec, {"SyntaxError"})
  ELSE LET videoUrl == videoUrlOf(operation) IN
       Done([rec EXCEPT !.result = operation, !.videoUrl = videoUrl], 200, "ready")

\* The poller read a status: operation is its JSON.
PollStatus(rec, operation) ==
  IF operation = "pendingOp"
  THEN SleepIteration([rec EXCEPT !.elapsed = 0, !.pendingSeen = @ + 1])
  ELSE IF operation \in {"doneError", "doneErrorCode"}
  THEN CatchHandler(rec, OperationError(operation))
  ELSE IF operation = "badJson"
  THEN CatchHandler(rec, {"SyntaxError"})
  ELSE LET videoUrl == videoUrlOf(operation) IN
       IF Truthy(videoUrl)
       THEN Done([rec EXCEPT !.result = operation, !.videoUrl = videoUrl], 200, "ready")
       ELSE CatchHandler([rec EXCEPT !.result = operation], {"output URI not found"})

\* A JavaScript value that may be an integer: undefined, or the integer n.
Undefined == [isInteger |-> FALSE, value |-> 0]
Integer(n) == [isInteger |-> TRUE, value |-> n]

\* An object without fields, and the object with the field k iff c.
Empty == [k \in {} |-> TRUE]
Field(c, k, v) == IF c THEN k :> v ELSE Empty

\* Faulty variant of buildVeoRequestBody: in reference mode the image is put
\* on the instance as well.
buildVeoRequestBody_BothPlaces(a) ==
  LET includeImage == IF a.includeImage = "undefined" THEN TRUE ELSE a.includeImage = "true"
      imageMode == IF a.imageMode = "undefined" THEN "first_frame" ELSE a.imageMode
      attach == includeImage /\ a.imageData # "" /\ a.mimeType # ""
      image == [imageBytes |-> a.imageData, mimeType |-> a.mimeType]
      instance == ("prompt" :> a.prompt) @@ Field(attach, "image", image)
      parameters ==
        ("aspectRatio" :> (IF a.aspectRatio = "9:16" THEN "9:16" ELSE "16:9"))
          @@ ("resolution" :> (IF a.resolution # "" THEN a.resolution ELSE "720p"))
          @@ Field(a.numberOfVideos.isInteger /\ a.numberOfVideos.value > 0,
                   "numberOfVideos", a.numberOfVideos.value)
          @@ Field(a.personGeneration # "", "personGeneration", a.personGeneration)
          @@ Field(a.seed.isInteger, "seed", a.seed.value)
          @@ Field(attach /\ imageMode = "reference", "referenceImages",
                   <<[referenceType |-> "REFERENCE_TYPE_STYLE", referenceId |-> 1,
                      image |-> image]>>)
  IN [instances |-> <<instance>>, parameters |-> parameters]

\* Faulty variant of buildVeoRequestBody: the image is attached without a
\* mimeType.
buildVeoRequestBody_NoMimeType(a) ==
  LET includeImage == IF a.includeImage = "undefined" THEN TRUE ELSE a.includeImage = "true"
      imageMode == IF a.imageMode = "undefined" THEN "first_frame" ELSE a.imageMode
      attach == includeImage /\ a.imageData # ""
      image == [imageBytes |-> a.imageData, mimeType |-> a.mimeType]
      instance ==
        ("prompt" :> a.prompt) @@ Field(attach /\ imageMode # "reference", "image", image)
      parameters ==
        ("aspectRatio" :> (IF a.aspectRatio = "9:16" THEN "9:16" ELSE "16:9"))
          @@ ("resolution" :> (IF a.resolution # "" THEN a.resolution ELSE "720p"))
          @@ Field(a.numberOfVideos.isInteger /\ a.numberOfVideos.value > 0,
                   "numberOfVideos", a.numberOfVideos.value)
          @@ Field(a.personGeneration # "", "personGeneration", a.personGeneration)
          @@ Field(a.seed.isInteger, "seed", a.seed.value)
          @@ Field(attach /\ imageMode = "reference", "referenceImages",
                   <<[referenceType |-> "REFERENCE_TYPE_STYLE", referenceId |-> 1,
                      image |-> image]>>)
  IN [instances |-> <<instance>>, parameters |-> parameters]

\* buildVeoRequestBody(a): the body, an object with its optional fields
\* present or absent.  Strings are falsy iff empty (null and undefined are
\* the empty string here); includeImage and imageMode take their defaults
\* when "undefined".
buildVeoRequestBody(a) ==
  LET includeImage == IF a.includeImage = "undefined" THEN TRUE ELSE a.includeImage = "true"
      imageMode == IF a.imageMode = "undefined" THEN "first_frame" ELSE a.imageMode
      attach == includeImage /\ a.imageData # "" /\ a.mimeType # ""
      image == [imageBytes |-> a.imageData, mimeType |-> a.mimeType]
      instance ==
        ("prompt" :> a.prompt) @@ Field(attach /\ imageMode # "reference", "image", image)
      parameters ==
        ("aspectRatio" :> (IF a.aspectRatio = "9:16" THEN "9:16" ELSE "16:9"))
          @@ ("resolution" :> (IF a.resolution # "" THEN a.resolution ELSE "720p"))
          @@ Field(a.numberOfVideos.isInteger /\ a.numberOfVideos.value > 0,
                   "numberOfVideos", a.numberOfVideos.value)
          @@ Field(a.personGeneration # "", "personGeneration", a.personGeneration)
          @@ Field(a.seed.isInteger, "seed", a.seed.value)
          @@ Field(attach /\ imageMode = "reference", "referenceImages",
                   <<[referenceType |-> "REFERENCE_TYPE_STYLE", referenceId |-> 1,
                      image |-> image]>>)
  IN [instances |-> <<instance>>, parameters |-> parameters]

\* The fields a body carries: those of parameters, and "image" for
\* instances[0].image.
BodyFields(body) ==
  (DOMAIN body.parameters)
    \cup (IF "image" \in DOMAIN body.instances[1] THEN {"image"} ELSE {})

\* buildRequestBody of the handler: buildVeoRequestBody on the request's
\* image (mimeType has a default there, the seed is always an integer) and
\* the configuration; the handler's code looks at the fields only.
buildRequestBody(imageData, imageMode) ==
  BodyFields(buildVeoRequestBody(
    [prompt |-> "animationPrompt",
     imageData |-> IF imageData THEN "imageData" ELSE "",
     mimeType |-> "effectiveMimeType",
     aspectRatio |-> "16:9", resolution |-> "720p",
     personGeneration |-> IF env.VEO_PERSON_GENERATION THEN "VEO_PERSON_GENERATION" ELSE "",
     numberOfVideos |-> IF env.VEO_NUMBER_OF_VIDEOS THEN Integer(1) ELSE Undefined,
     seed |-> Integer(0),
     includeImage |-> IF env.VEO_INCLUDE_IMAGE THEN "true" ELSE "false",
     imageMode |-> imageMode]))

\* The start call of the Gemini path.
BeginStart(rec) ==
  LET mode == env.VEO_GEMINI_IMAGE_MODE IN
  Stay(IssueFetch([rec EXCEPT !.imageMode = mode,
                              !.requestBody = buildRequestBody(rec.imageData, mode),
                              !.triedAlternateImageMode = FALSE],
                  "start"))

\* The start call is issued again with the body changed to b.
RetryStart(rec, b) ==
  Stay(IssueFetch([rec EXCEPT !.requestBody = b, !.rejectedBody = rec.requestBody],
                  "startRetry"))

\* Faulty variant of AdaptStart: referenceImages is dropped from the body and
\* the image mode is left as it was.
AdaptStart_KeepMode(rec, err) ==
  LET unsupportedField == getUnsupportedField(err)
      body == rec.requestBody
  IN
  IF unsupportedField = "referenceImages"
  THEN IF env.VEO_REQUIRE_IMAGE
       THEN IF rec.imageMode = "reference" /\ ~rec.triedAlternateImageMode
            THEN RetryStart([rec EXCEPT !.triedAlternateImageMode = TRUE],
                            body \ {"referenceImages"})
            ELSE CatchHandler(rec, {"referenceImages is not supported by this model"})
       ELSE RetryStart(rec, body \ {"referenceImages"})
  ELSE IF unsupportedField = "personGeneration"
  THEN RetryStart(rec, body \ {"personGeneration"})
  ELSE IF unsupportedField # "null" /\ unsupportedField \in body \ {"image"}
  THEN RetryStart(rec, body \ {unsupportedField})
  ELSE IF isUnsupportedImageError(err) /\ body \cap {"image", "referenceImages"} # {}
  THEN IF env.VEO_REQUIRE_IMAGE
       THEN IF ~rec.triedAlternateImageMode
            THEN LET mode == IF rec.imageMode = "reference" THEN "first_frame" ELSE "reference" IN
                 RetryStart([rec EXCEPT !.triedAlternateImageMode = TRUE, !.imageMode = mode,
                                        !.modeSwitches = @ + 1],
                            buildRequestBody(rec.imageData, mode))
            ELSE CatchHandler(rec, {"the Gemini API rejected both image modes"})
       ELSE IF ~env.VEO_ALLOW_IMAGE_FALLBACK
            THEN CatchHandler(rec, {"the Gemini API rejected the image payload"})
            ELSE RetryStart(rec, body \ {"image", "referenceImages"})
  ELSE CatchHandler(rec, err)

\* The catch block around the start call: the request is adapted and sent
\* once more, or the error goes on to the handler's catch block.
AdaptStart(rec, err) ==
  LET unsupportedField == getUnsupportedField(err)
      body == rec.requestBody
  IN
  IF unsupportedField = "referenceImages"
  THEN IF env.VEO_REQUIRE_IMAGE
       THEN IF rec.imageMode = "reference" /\ ~rec.triedAlternateImageMode
            THEN RetryStart([rec EXCEPT !.triedAlternateImageMode = TRUE,
                                        !.imageMode = "first_frame",
                                        !.modeSwitches = @ + 1],
                            buildRequestBody(rec.imageData, "first_frame"))
            ELSE CatchHandler(rec, {"referenceImages is not supported by this model"})
       ELSE RetryStart(rec, body \ {"referenceImages"})
  ELSE IF unsupportedField = "personGeneration"
  THEN RetryStart(rec, body \ {"personGeneration"})
  ELSE IF unsupportedField # "null" /\ unsupportedField \in body \ {"image"}
  THEN RetryStart(rec, body \ {unsupportedField})
  ELSE IF isUnsupportedImageError(err) /\ body \cap {"image", "referenceImages"} # {}
  THEN IF env.VEO_REQUIRE_IMAGE
       THEN IF ~rec.triedAlternateImageMode
            THEN LET mode == IF rec.imageMode = "reference" THEN "first_frame" ELSE "reference" IN
                 RetryStart([rec EXCEPT !.triedAlternateImageMode = TRUE, !.imageMode = mode,
                                        !.modeSwitches = @ + 1],
                            buildRequestBody(rec.imageData, mode))
            ELSE CatchHandler(rec, {"the Gemini API rejected both image modes"})
       ELSE IF ~env.VEO_ALLOW_IMAGE_FALLBACK
            THEN CatchHandler(rec, {"the Gemini API rejected the image payload"})
            ELSE RetryStart(rec, body \ {"image", "referenceImages"})
  ELSE CatchHandler(rec, err)

\* The Vertex path from its check "canceled before Vertex call" on.
BeginVertexCall(rec) ==
  IF rec.requestCanceled THEN Done(rec, 0, "canceled")
  ELSE Stay(IssueVertex(rec, "vertexStart"))

\* The Vertex path up to its first call.
BeginVertex(rec) ==
  IF ~env.VERTEX_CONFIGURED
  THEN CatchHandler(rec, {"not configured for Vertex AI"})
  ELSE IF env.VEO_INCLUDE_IMAGE /\ ~rec.imageData
  THEN CatchHandler(rec, {"Missing image data for Vertex AI request"})
  ELSE IF env.VEO_INCLUDE_IMAGE /\ rec.imageData
  THEN Stay(IssueVertex(rec, "upload"))
  ELSE BeginVertexCall(rec)

\* The handler, from the return of buildPromptFromImage on.
AfterPrompt(rec) ==
  IF rec.requestCanceled THEN Done(rec, 0, "canceled")
  ELSE IF env.VEO_PROVIDER = "vertex" THEN BeginVertex(rec)
  ELSE BeginStart(rec)

\* The try block of the handler: buildPromptFromImage up to its first call.
BeginTry(rec) ==
  IF env.VEO_MINIMAL_PROMPT
  THEN IF env.VEO_USE_GEMINI3_PROMPT /\ rec.imageData
       THEN Stay(IssueFetch(rec, "analysisMinimal"))
       ELSE AfterPrompt([rec EXCEPT !.prompt = "minimal"])
  ELSE IF ~env.VEO_USE_GEMINI3_PROMPT \/ ~rec.imageData
       THEN AfterPrompt([rec EXCEPT !.prompt = "animation"])
       ELSE Stay(IssueFetch(rec, "analysis"))

\* Faulty variant of AfterAcquire: no cancellation check after the wait.
AfterAcquire_NoCancel(rec) == BeginTry(rec)

\* Faulty variant of AfterAcquire: the canceled request gives its slot back
\* and goes on into the try block.
AfterAcquire_ReleaseAndGoOn(rec) ==
  IF rec.requestCanceled
  THEN [rec |-> [BeginTry(rec).rec EXCEPT !.released = @ + 1], rel |-> TRUE]
  ELSE BeginTry(rec)

\* The handler, from the return of acquireVeoSlot on.
AfterAcquire(rec) ==
  IF rec.requestCanceled THEN Done(rec, 0, "canceled") ELSE BeginTry(rec)

\* fetchWithRetry returned a response whose JSON is body: the caller goes on.
AfterFetchOk(rec, body) ==
  CASE rec.ctx \in {"start", "startRetry"} ->
         IF body = "apiError" THEN CatchHandler(rec, {"upstream message"})
         ELSE IF body = "name" THEN PollIteration([rec EXCEPT !.i = 0])
         ELSE IF body = "badJson" THEN CatchHandler(rec, {"SyntaxError"})
         ELSE CatchHandler(rec, {"Unexpected response format"})
    [] rec.ctx = "poll" -> PollStatus(rec, body)
    [] rec.ctx = "analysis" ->
         IF body \in {"apiError", "badJson"}
         THEN AfterPrompt([rec EXCEPT !.prompt = "ultraShort"])
         ELSE Stay(IssueFetch(rec, "promptBuild"))
    [] rec.ctx = "analysisMinimal" ->
         AfterPrompt([rec EXCEPT !.prompt = IF body = "text" THEN "focus" ELSE "minimal"])
    [] rec.ctx = "promptBuild" ->
         AfterPrompt([rec EXCEPT !.prompt = IF body = "text" THEN "built" ELSE "ultraShort"])
    [] OTHER -> Answer(rec, 200, "models")

\* fetchWithRetry throws err (history only).
Raise(rec, err) ==
  [rec EXCEPT !.throws = @ + 1, !.raised = err,
              !.raisedFetches = rec.fetches, !.raised429 = rec.n429]

\* The prompt buildPromptFromImage returns when its call c fails.
FallbackPrompt(c) == IF c = "analysisMinimal" THEN "minimal" ELSE "ultraShort"

\* Faulty variant of AfterFetchThrow: buildPromptFromImage lets the error of
\* its call through.
AfterFetchThrow_PromptFatal(rec, err) ==
  LET e == Raise(rec, err) IN
  CASE rec.ctx = "start" -> AdaptStart(e, err)
    [] rec.ctx = "models" -> Answer(e, 200, "models")
    [] OTHER -> CatchHandler(e, err)

\* Faulty variant of AfterFetchThrow: the call issued by the catch block is
\* adapted again when it fails.
AfterFetchThrow_AdaptAgain(rec, err) ==
  LET e == Raise(rec, err) IN
  CASE rec.ctx \in {"start", "startRetry"} -> AdaptStart(e, err)
    [] rec.ctx \in {"analysis", "analysisMinimal", "promptBuild"} ->
         AfterPrompt([e EXCEPT !.prompt = FallbackPrompt(rec.ctx)])
    [] rec.ctx = "models" -> Answer(e, 200, "models")
    [] OTHER -> CatchHandler(e, err)

\* fetchWithRetry threw err: the caller goes on.
AfterFetchThrow(rec, err) ==
  LET e == Raise(rec, err) IN
  CASE rec.ctx = "start" -> AdaptStart(e, err)
    [] rec.ctx \in {"analysis", "analysisMinimal", "promptBuild"} ->
         AfterPrompt([e EXCEPT !.prompt = FallbackPrompt(rec.ctx)])
    [] rec.ctx = "models" -> Answer(e, 200, "models")
    [] OTHER -> CatchHandler(e, err)

\* A call of the Vertex path was answered 2xx with the JSON body.
AfterVertexOk(rec, body) ==
  CASE rec.ctx = "upload" -> BeginVertexCall(rec)
    [] rec.ctx = "vertexStart" ->
         IF body = "apiError" THEN CatchHandler(rec, {"upstream message"})
         ELSE IF body = "name" THEN PollIteration([rec EXCEPT !.i = 0])
         ELSE IF body = "badJson" THEN CatchHandler(rec, {"SyntaxError"})
         ELSE CatchHandler(rec, {"Unexpected Vertex response"})
    [] OTHER -> PollStatus(rec, body)

\* ------------------------------------------------- upstream answers (input)
\* The bodies the handler is explored under, by the call.
HandlerBodies(c) ==
  CASE c \in {"poll", "vertexPoll"} ->
         {"pendingOp", "doneUri", "doneNoUri", "doneError", "doneErrorCode", "badJson"}
    [] c \in {"start", "startRetry", "vertexStart"} -> {"name", "apiError", "unexpected", "badJson"}
    [] c \in {"analysis", "analysisMinimal", "promptBuild"} -> {"text", "emptyText", "apiError", "badJson"}
    [] c = "upload" -> {"uploaded"}
    [] OTHER -> {"models"}

\* The JSON bodies a caller tells apart, by the call ("badJson": not JSON).
OkBodies(c) ==
  CASE c \in {"poll", "vertexPoll"} ->
         {"pendingOp", "doneUri", "doneSamples", "doneFileName", "doneNested", "doneDeep",
          "doneEmptyUri", "doneNoResponse", "doneNoUri", "doneError", "doneErrorCode",
          "badJson"}
    [] c \in {"start", "startRetry", "vertexStart"} -> {"name", "apiError", "unexpected", "badJson"}
    [] c \in {"analysis", "analysisMinimal", "promptBuild"} -> {"text", "emptyText", "apiError", "badJson"}
    [] c = "upload" -> {"uploaded"}
    [] OTHER -> {"models"}

\* Good answers cost the environment nothing; the model bounds the others.
Costs(body) == body \notin {"name", "doneUri", "pendingOp", "text", "uploaded", "models"}

\* A failure of a fetch: a non-2xx status with the tested substrings that its
\* body contains, or (status 0) an exception of fetch with those of its text.
Failure(status, text) == [status |-> status, text |-> text]

StatusText(status) ==
  CASE status = 400 -> "400" [] status = 401 -> "401" [] status = 403 -> "403"
    [] status = 404 -> "404" [] status = 429 -> "429" [] status = 502 -> "502"
    [] OTHER -> "500"

\* The tested substrings of the message of the error built from a failure:
\* `API error ${status}: ${body}`, or the text of the exception.
ErrorMessage(a) == (IF a.status = 0 THEN {} ELSE {StatusText(a.status)}) \cup a.text

\* The failures the handler is explored under, by the call.
ErrAnswers(c) ==
  {Failure(500, {}), Failure(400, {}), Failure(0, {"fetch failed"})}
    \cup (IF c = "start"
          THEN {Failure(400, {Backtick("referenceImages")}),
                Failure(400, {Backtick("imageBytes")})}
          ELSE {})
    \cup (IF c \in {"upload", "vertexStart", "vertexPoll"} THEN {Failure(429, {})} ELSE {})

\* The Retry-After header of a 429, in seconds (-1: no header).
RetryAfters == {-1, 2}


\* ----------------------------------------------------------------- actions
\* Faulty variant of validation: mimeType is not asked for.
validation_NoMimeType(rec) ==
  IF env.VEO_REQUIRE_IMAGE /\ ~env.VEO_INCLUDE_IMAGE THEN 400
  ELSE IF env.VEO_INCLUDE_IMAGE /\ ~rec.imageData THEN 400
  ELSE IF ~env.GEMINI_API_KEY THEN 500
  ELSE 0

\* The input checks of the handler of /api/veo: the status of the rejection,
\* 0 if there is none.
validation(rec) ==
  IF env.VEO_REQUIRE_IMAGE /\ ~env.VEO_INCLUDE_IMAGE THEN 400
  ELSE IF env.VEO_INCLUDE_IMAGE /\ (~rec.imageData \/ ~rec.mimeType) THEN 400
  ELSE IF ~env.GEMINI_API_KEY THEN 500
  ELSE 0

\* acquireVeoSlot after its first waitForVeoCooldown: take a slot or queue.
TakeOrQueue(r, rec) ==
  IF veoInFlight < env.VEO_MAX_CONCURRENT
  THEN /\ veoInFlight' = veoInFlight + 1
       /\ req' = [req EXCEPT ![r] = [rec EXCEPT !.pc = "acquired", !.granted = @ + 1]]
       /\ UNCHANGED <<veoQueue, nextTicket>>
  ELSE /\ veoQueue' = Append(veoQueue, r)
       /\ nextTicket' = nextTicket + 1
       /\ req' = [req EXCEPT ![r] = [rec EXCEPT !.pc = "queued", !.ticket = nextTicket + 1]]
       /\ UNCHANGED veoInFlight

\* Faulty variant of Arrive: acquireVeoSlot does not ask whether limiting is
\* disabled.
Arrive_NoBypass(r, imageBase64, mimeType) ==
  /\ NoMicrotask
  /\ req[r].pc = "idle"
  /\ r > 1 => req[r - 1].pc # "idle"
  /\ arrivals > 0
  /\ arrivals' = arrivals - 1
  /\ UNCHANGED <<ui, call, env, now, veoCooldownUntil, faults, pending, aborts>>
  /\ LET rec == [req[r] EXCEPT !.imageData = imageBase64, !.mimeType = mimeType] IN
     IF validation(rec) # 0
     THEN /\ Commit(r, Answer(rec, validation(rec), "rejected"))
          /\ UNCHANGED nextTicket
     ELSE IF veoCooldownUntil > now
     THEN /\ req' = [req EXCEPT ![r] = [rec EXCEPT !.pc = "cooldownDirect",
                                                   !.wakeAt = now + (veoCooldownUntil - now)]]
          /\ UNCHANGED <<veoInFlight, veoQueue, nextTicket>>
     ELSE TakeOrQueue(r, rec)

\* POST /api/veo arrives: the handler runs up to its first suspension.
Arrive(r, imageBase64, mimeType) ==
  /\ NoMicrotask
  /\ req[r].pc = "idle"
  /\ r > 1 => req[r - 1].pc # "idle"
  /\ arrivals > 0
  /\ arrivals' = arrivals - 1
  /\ UNCHANGED <<ui, call, env, now, veoCooldownUntil, faults, pending, aborts>>
  /\ LET rec == [req[r] EXCEPT !.imageData = imageBase64, !.mimeType = mimeType] IN
     IF validation(rec) # 0
     THEN /\ Commit(r, Answer(rec, validation(rec), "rejected"))
          /\ UNCHANGED nextTicket
     ELSE IF env.VEO_MAX_CONCURRENT < 1
     THEN /\ req' = [req EXCEPT ![r] = [rec EXCEPT !.pc = "acquired"]]
          /\ UNCHANGED <<veoInFlight, veoQueue, nextTicket>>
     ELSE IF veoCooldownUntil > now
     THEN /\ req' = [req EXCEPT ![r] = [rec EXCEPT !.pc = "cooldownDirect",
                                                   !.wakeAt = now + (veoCooldownUntil - now)]]
          /\ UNCHANGED <<veoInFlight, veoQueue, nextTicket>>
     ELSE TakeOrQueue(r, rec)

\* The sleep of the first waitForVeoCooldown of acquireVeoSlot is over.
WakeCooldownDirect(r) ==
  /\ NoMicrotask
  /\ req[r].pc = "cooldownDirect"
  /\ req[r].wakeAt <= now
  /\ TakeOrQueue(r, req[r])
  /\ UNCHANGED <<ui, call, env, now, veoCooldownUntil, faults, pending, arrivals, aborts>>

\* A waiter whose promise releaseVeoSlot resolved goes on in acquireVeoSlot.
ResumeWoken(r) ==
  /\ req[r].pc = "woken"
  /\ IF veoCooldownUntil > now
     THEN /\ req' = [req EXCEPT ![r].pc = "cooldownWoken",
                                ![r].wakeAt = now + (veoCooldownUntil - now)]
          /\ UNCHANGED veoInFlight
     ELSE /\ veoInFlight' = veoInFlight + 1
          /\ req' = [req EXCEPT ![r].pc = "acquired", ![r].granted = @ + 1]
  /\ UNCHANGED <<veoQueue, others>>

\* The sleep of the second waitForVeoCooldown of acquireVeoSlot is over.
WakeCooldownWoken(r) ==
  /\ NoMicrotask
  /\ req[r].pc = "cooldownWoken"
  /\ req[r].wakeAt <= now
  /\ veoInFlight' = veoInFlight + 1
  /\ req' = [req EXCEPT ![r].pc = "acquired", ![r].granted = @ + 1]
  /\ UNCHANGED <<veoQueue, others>>

\* acquireVeoSlot returned: the handler runs up to its first upstream call.
PostAcquire(r) ==
  /\ req[r].pc = "acquired"
  /\ Commit(r, AfterAcquire(req[r]))
  /\ UNCHANGED others

\* GET /api/models arrives: listGeminiModels calls fetchWithRetry.
CallModels ==
  /\ NoMicrotask
  /\ req[ModelsClient].pc = "idle"
  /\ IF env.GEMINI_API_KEY
     THEN Commit(ModelsClient, Stay(IssueFetch(req[ModelsClient], "models")))
     ELSE Commit(ModelsClient, Answer(req[ModelsClient], 200, "models"))
  /\ UNCHANGED others

\* The client of request r disconnects: markCanceled.
Abort(r) ==
  /\ NoMicrotask
  /\ req[r].pc \notin {"idle", "done"}
  /\ ~req[r].requestCanceled
  /\ aborts > 0
  /\ aborts' = aborts - 1
  /\ req' = [req EXCEPT ![r].requestCanceled = TRUE,
                        ![r].canceledWaiting = Waiting(req[r])]
  /\ UNCHANGED <<ui, call, env, now, veoCooldownUntil, veoInFlight, veoQueue, faults,
                 pending, nextTicket, arrivals>>

\* fetchWithRetry: the attempt is answered 429.
FetchRateLimited(r, retryAfter) ==
  /\ NoMicrotask
  /\ req[r].pc = "fetch"
  /\ req[r].aged
  /\ faults > 0
  /\ faults' = faults - 1
  /\ LET waitTime == IF retryAfter >= 0 THEN retryAfter * 1000
                     ELSE Pow2(req[r].attempt) * 1000
     IN /\ veoCooldownUntil' = setVeoCooldown(waitTime)
        /\ req' = [req EXCEPT ![r].pc = "sleep429", ![r].lastError = {"429"},
                              ![r].wakeAt = now + waitTime,
                              ![r].n429 = @ + 1, ![r].answers = @ + 1,
                              ![r].lastStatus = 429, ![r].lastBody = "none",
                              ![r].armedUntil = IF waitTime > 0
                                                THEN Max(@, now + waitTime) ELSE @,
                              ![r].extended = (now + waitTime > veoCooldownUntil)]
  /\ UNCHANGED <<ui, call, env, now, veoInFlight, veoQueue, pending, nextTicket, arrivals, aborts>>

\* Faulty variant of Sleep429Wake: the attempt is not counted.
Sleep429Wake_NoCount(r) ==
  /\ NoMicrotask
  /\ req[r].pc = "sleep429"
  /\ req[r].wakeAt <= now
  /\ Commit(r, Stay(Refetch(req[r])))
  /\ UNCHANGED others

\* fetchWithRetry: the sleep after a 429 is over.
Sleep429Wake(r) ==
  /\ NoMicrotask
  /\ req[r].pc = "sleep429"
  /\ req[r].wakeAt <= now
  /\ LET rec == [req[r] EXCEPT !.attempt = @ + 1] IN
     IF rec.attempt < maxRetries
     THEN Commit(r, Stay(Refetch(rec)))
     ELSE Commit(r, AfterFetchThrow(rec, rec.lastError))
  /\ UNCHANGED others

\* Faulty variant of FetchFailed: every failure is tried again.
FetchFailed_RetryAll(r, a) ==
  /\ NoMicrotask
  /\ req[r].pc = "fetch"
  /\ req[r].aged
  /\ faults > 0
  /\ faults' = faults - 1
  /\ LET err == ErrorMessage(a)
         rec == [req[r] EXCEPT !.lastError = err, !.answers = @ + 1,
                               !.lastStatus = a.status, !.lastBody = "none"]
     IN
     IF rec.attempt < maxRetries - 1
     THEN Commit(r, Stay([rec EXCEPT !.pc = "backoff",
                                     !.wakeAt = now + Pow2(rec.attempt) * 1000]))
     ELSE Commit(r, AfterFetchThrow(rec, err))
  /\ UNCHANGED <<ui, call, env, now, veoCooldownUntil, pending, nextTicket, arrivals, aborts>>

\* fetchWithRetry: the attempt fails with a (a non-2xx status other than
\* 429, or an exception of fetch).
FetchFailed(r, a) ==
  /\ NoMicrotask
  /\ req[r].pc = "fetch"
  /\ req[r].aged
  /\ faults > 0
  /\ faults' = faults - 1
  /\ LET err == ErrorMessage(a)
         rec == [req[r] EXCEPT !.lastError = err, !.answers = @ + 1,
                               !.lastStatus = a.status, !.lastBody = "none"]
     IN
     IF rec.attempt < maxRetries - 1 /\ err \cap {"400", "401", "403"} = {}
     THEN Commit(r, Stay([rec EXCEPT !.pc = "backoff",
                                     !.wakeAt = now + Pow2(rec.attempt) * 1000]))
     ELSE Commit(r, AfterFetchThrow(rec, err))
  /\ UNCHANGED <<ui, call, env, now, veoCooldownUntil, pending, nextTicket, arrivals, aborts>>

\* fetchWithRetry: the sleep after a failure is over.
BackoffWake(r) ==
  /\ NoMicrotask
  /\ req[r].pc = "backoff"
  /\ req[r].wakeAt <= now
  /\ Commit(r, Stay(Refetch([req[r] EXCEPT !.attempt = @ + 1])))
  /\ UNCHANGED others

\* fetchWithRetry: the attempt is answered 2xx with body.
FetchOk(r, body) ==
  /\ NoMicrotask
  /\ req[r].pc = "fetch"
  /\ req[r].aged
  /\ body \in OkBodies(req[r].ctx)
  /\ Costs(body) => faults > 0
  /\ body = "pendingOp" => pending > 0
  /\ faults' = IF Costs(body) THEN faults - 1 ELSE faults
  /\ pending' = IF body = "pendingOp" THEN pending - 1 ELSE pending
  /\ Commit(r, AfterFetchOk([req[r] EXCEPT !.answers = @ + 1, !.lastStatus = 200,
                                          !.lastBody = body],
                             body))
  /\ UNCHANGED <<ui, call, env, now, veoCooldownUntil, nextTicket, arrivals, aborts>>

\* A call of the Vertex path is answered 2xx with body.
VertexOk(r, body) ==
  /\ NoMicrotask
  /\ req[r].pc = "vfetch"
  /\ req[r].aged
  /\ body \in OkBodies(req[r].ctx)
  /\ Costs(body) => faults > 0
  /\ body = "pendingOp" => pending > 0
  /\ faults' = IF Costs(body) THEN faults - 1 ELSE faults
  /\ pending' = IF body = "pendingOp" THEN pending - 1 ELSE pending
  /\ Commit(r, AfterVertexOk(req[r], body))
  /\ UNCHANGED <<ui, call, env, now, veoCooldownUntil, nextTicket, arrivals, aborts>>

\* A call of the Vertex path fails with a: it is not tried again.
VertexFailed(r, a) ==
  /\ NoMicrotask
  /\ req[r].pc = "vfetch"
  /\ req[r].aged
  /\ faults > 0
  /\ faults' = faults - 1
  /\ Commit(r, CatchHandler(req[r], ErrorMessage(a)))
  /\ UNCHANGED <<ui, call, env, now, veoCooldownUntil, pending, nextTicket, arrivals, aborts>>

\* sleepWithCancel: one slice of the sleep is over.
PollSliceWake(r) ==
  /\ NoMicrotask
  /\ req[r].pc = "pollSleep"
  /\ req[r].aged
  /\ Commit(r, SleepIteration([req[r] EXCEPT
                 !.elapsed = @ + Min(step, pollInterval - req[r].elapsed)]))
  /\ UNCHANGED others

\* Some time passes, less than a step of the clock.
Elapse ==
  /\ NoMicrotask
  /\ ~DueTimer
  /\ \E r \in Procs : req[r].pc \in {"fetch", "vfetch", "pollSleep"} /\ ~req[r].aged
  /\ req' = [r \in Procs |-> [req[r] EXCEPT !.aged = TRUE]]
  /\ UNCHANGED <<veoInFlight, veoQueue, others>>

\* One second passes.
Tick ==
  /\ NoMicrotask
  /\ ~DueTimer
  /\ veoCooldownUntil > now \/ \E r \in Procs : Timed(req[r])
  /\ now' = now + 1000
  /\ req' = [r \in Procs |-> [req[r] EXCEPT !.aged = TRUE]]
  /\ UNCHANGED <<ui, call, env, veoCooldownUntil, veoInFlight, veoQueue, faults, pending,
                 nextTicket, arrivals, aborts>>

\* ---------------------------------------------------------- specifications
DefaultEnv ==
  [VEO_MAX_CONCURRENT |-> 1, VEO_REQUIRE_IMAGE |-> TRUE, VEO_INCLUDE_IMAGE |-> TRUE,
   GEMINI_API_KEY |-> TRUE, VEO_ALLOW_IMAGE_FALLBACK |-> FALSE,
   VEO_GEMINI_IMAGE_MODE |-> "first_frame", VEO_PERSON_GENERATION |-> FALSE,
   VEO_NUMBER_OF_VIDEOS |-> FALSE, VEO_PROVIDER |-> "gemini",
   VEO_MINIMAL_PROMPT |-> TRUE, VEO_USE_GEMINI3_PROMPT |-> FALSE,
   VERTEX_CONFIGURED |-> FALSE]

\* No function is explored on its own.
NoCall == [fn |-> "none"]

\* The browser reader before a document is mounted.
NoReader == [mounted |-> FALSE]

InitState ==
  /\ now = 0
  /\ veoCooldownUntil = 0
  /\ veoInFlight = 0
  /\ veoQueue = <<>>
  /\ req = [r \in Procs |-> InitReq]
  /\ nextTicket = 0

\* The gate under load: up to NumRequests valid requests, the default
\* configuration with 1..MaxSlots slots, upstream calls that succeed or are
\* rate limited.
Init ==
  /\ InitState
  /\ call = NoCall
  /\ ui = NoReader
  /\ env \in {[DefaultEnv EXCEPT !.VEO_MAX_CONCURRENT = n] : n \in 1..MaxSlots}
  /\ faults = MaxFaults
  /\ pending = 0
  /\ arrivals = NumRequests
  /\ aborts = MaxAborts

Next ==
  \/ \E r \in Requests : Arrive(r, TRUE, TRUE)
  \/ \E r \in Requests : Abort(r)
  \/ \E r \in Requests : WakeCooldownDirect(r)
  \/ \E r \in Requests : ResumeWoken(r)
  \/ \E r \in Requests : WakeCooldownWoken(r)
  \/ \E r \in Requests : PostAcquire(r)
  \/ CallModels
  \/ \E r \in Procs : FetchRateLimited(r, -1)
  \/ \E r \in Procs : Sleep429Wake(r)
  \/ \E r \in Procs : \E body \in {"name", "doneUri", "models"} : FetchOk(r, body)
  \/ Elapse
  \/ Tick

Spec == Init /\ [][Next]_vars


\* The gate with the scheduling of the runtime: a queued promise reaction
\* runs, a timer that is due fires, time passes, and every upstream call
\* is answered in the end (so that every holder of a slot gives it back).
\* Arrivals, disconnects and 429 answers stay up to the environment.
InitLive ==
  /\ InitState
  /\ call = NoCall
  /\ ui = NoReader
  /\ env \in {[DefaultEnv EXCEPT !.VEO_MAX_CONCURRENT = n] : n \in 1..MaxSlots}
  /\ faults = LiveFaults
  /\ pending = 0
  /\ arrivals = LiveRequests
  /\ aborts = LiveAborts

Fairness ==
  /\ WF_vars(\E r \in Requests : WakeCooldownDirect(r))
  /\ WF_vars(\E r \in Requests : ResumeWoken(r))
  /\ WF_vars(\E r \in Requests : WakeCooldownWoken(r))
  /\ WF_vars(\E r \in Requests : PostAcquire(r))
  /\ WF_vars(\E r \in Procs : Sleep429Wake(r))
  /\ WF_vars(\E r \in Procs : \E body \in {"name", "doneUri", "models"} : FetchOk(r, body))
  /\ WF_vars(Elapse)
  /\ WF_vars(Tick)

LiveSpec == InitLive /\ [][Next]_vars /\ Fairness

\* The gate with limiting enabled (1..MaxSlots slots) and disabled (0).
InitGate ==
  /\ InitState
  /\ call = NoCall
  /\ ui = NoReader
  /\ env \in {[DefaultEnv EXCEPT !.VEO_MAX_CONCURRENT = n] : n \in 0..MaxSlots}
  /\ faults = LiveFaults
  /\ pending = 0
  /\ arrivals = LiveRequests
  /\ aborts = LiveAborts

GateSpec == InitGate /\ [][Next]_vars

\* The results of the pollers: one request, through the Gemini API or
\* Vertex AI, whose operation finishes with a response of any explored
\* shape, with an error, or stays pending once.
ResultBodies ==
  {"pendingOp", "doneUri", "doneSamples", "doneFileName", "doneNested", "doneDeep",
   "doneEmptyUri", "doneNoResponse", "doneNoUri", "doneError", "badJson"}

InitResult ==
  /\ InitState
  /\ call = NoCall
  /\ ui = NoReader
  /\ env \in {DefaultEnv,
              [DefaultEnv EXCEPT !.VEO_PROVIDER = "vertex", !.VERTEX_CONFIGURED = TRUE]}
  /\ faults = ResultFaults
  /\ pending = 1
  /\ arrivals = 1
  /\ aborts = ResultAborts

NextResult ==
  \/ \E r \in Requests : Arrive(r, TRUE, TRUE)
  \/ \E r \in Requests : Abort(r)
  \/ \E r \in Requests : PostAcquire(r)
  \/ \E r \in Requests : \E body \in {"name", "uploaded"} \cup ResultBodies : FetchOk(r, body)
  \/ \E r \in Requests : \E body \in {"name", "uploaded"} \cup ResultBodies : VertexOk(r, body)
  \/ \E r \in Requests : \E a \in {Failure(500, {})} : FetchFailed(r, a)
  \/ \E r \in Requests : BackoffWake(r)
  \/ \E r \in Requests : PollSliceWake(r)
  \/ Elapse
  \/ Tick

ResultSpec == InitResult /\ [][NextResult]_vars

\* The configurations the handler is explored under.
HandlerEnvs ==
  { DefaultEnv,
    [DefaultEnv EXCEPT !.VEO_INCLUDE_IMAGE = FALSE],
    [DefaultEnv EXCEPT !.GEMINI_API_KEY = FALSE],
    [DefaultEnv EXCEPT !.VEO_PROVIDER = "vertex"],
    [DefaultEnv EXCEPT !.VEO_PROVIDER = "vertex", !.VERTEX_CONFIGURED = TRUE],
    [DefaultEnv EXCEPT !.VEO_USE_GEMINI3_PROMPT = TRUE],
    [DefaultEnv EXCEPT !.VEO_USE_GEMINI3_PROMPT = TRUE, !.VEO_MINIMAL_PROMPT = FALSE],
    [DefaultEnv EXCEPT !.VEO_REQUIRE_IMAGE = FALSE, !.VEO_ALLOW_IMAGE_FALLBACK = TRUE],
    [DefaultEnv EXCEPT !.VEO_GEMINI_IMAGE_MODE = "reference"] }

\* The handler of /api/veo on its own: up to HandlerRequests requests with
\* any input, every answer of the upstream, one slot.  Only the holder of the
\* slot arms the cooldown here and it sleeps as long as the cooldown lasts,
\* so a woken waiter never finds a cooldown armed (Spec covers that case).
InitHandler ==
  /\ InitState
  /\ call = NoCall
  /\ ui = NoReader
  /\ env \in HandlerEnvs
  /\ faults = HandlerFaults
  /\ pending = HandlerPending
  /\ arrivals = HandlerRequests
  /\ aborts = HandlerAborts

NextHandler ==
  \/ \E r \in Requests : \E imageBase64, mimeType \in BOOLEAN : Arrive(r, imageBase64, mimeType)
  \/ \E r \in Requests : Abort(r)
  \/ \E r \in Requests : WakeCooldownDirect(r)
  \/ \E r \in Requests : ResumeWoken(r)
  \/ \E r \in Requests : PostAcquire(r)
  \/ \E r \in Procs : \E retryAfter \in RetryAfters : FetchRateLimited(r, retryAfter)
  \/ \E r \in Procs : Sleep429Wake(r)
  \/ \E r \in Procs : \E a \in ErrAnswers(req[r].ctx) : FetchFailed(r, a)
  \/ \E r \in Procs : BackoffWake(r)
  \/ \E r \in Procs : \E body \in HandlerBodies(req[r].ctx) : FetchOk(r, body)
  \/ \E r \in Requests : \E body \in HandlerBodies(req[r].ctx) : VertexOk(r, body)
  \/ \E r \in Requests : \E a \in ErrAnswers(req[r].ctx) : VertexFailed(r, a)
  \/ \E r \in Requests : PollSliceWake(r)
  \/ Elapse
  \/ Tick

HandlerSpec == InitHandler /\ [][NextHandler]_vars

\* The pollers: one request, sent to the Gemini API or to Vertex AI, whose
\* operation stays pending for any number of status checks up to maxPolls.
InitPoll ==
  /\ InitState
  /\ call = NoCall
  /\ ui = NoReader
  /\ env \in {DefaultEnv,
              [DefaultEnv EXCEPT !.VEO_PROVIDER = "vertex", !.VERTEX_CONFIGURED = TRUE]}
  /\ faults = PollFaults
  /\ pending = maxPolls
  /\ arrivals = 1
  /\ aborts = 1

NextPoll ==
  \/ \E r \in Requests : Arrive(r, TRUE, TRUE)
  \/ \E r \in Requests : Abort(r)
  \/ \E r \in Requests : PostAcquire(r)
  \/ \E r \in Requests : \E retryAfter \in RetryAfters : FetchRateLimited(r, retryAfter)
  \/ \E r \in Requests : Sleep429Wake(r)
  \/ \E r \in Requests : \E a \in ErrAnswers(req[r].ctx) : FetchFailed(r, a)
  \/ \E r \in Requests : BackoffWake(r)
  \/ \E r \in Requests : \E body \in HandlerBodies(req[r].ctx) : FetchOk(r, body)
  \/ \E r \in Requests : \E body \in HandlerBodies(req[r].ctx) : VertexOk(r, body)
  \/ \E r \in Requests : \E a \in ErrAnswers(req[r].ctx) : VertexFailed(r, a)
  \/ \E r \in Requests : PollSliceWake(r)
  \/ Elapse
  \/ Tick

PollSpec == InitPoll /\ [][NextPoll]_vars


\* The failures fetchWithRetry is explored under: statuses that the code
\* tells apart and others, a body or an exception text that happens to
\* contain the digits of a status.
RetryAnswers ==
  {Failure(400, {}), Failure(401, {}), Failure(403, {}),
   Failure(404, {}), Failure(500, {}), Failure(502, {}),
   Failure(0, {"fetch failed"}),
   Failure(500, {"400"}), Failure(0, {"fetch failed", "403"})}

\* fetchWithRetry on its own: one valid request against an upstream that
\* fails up to RetryFaults times in any way.
InitRetry ==
  /\ InitState
  /\ call = NoCall
  /\ ui = NoReader
  /\ env = DefaultEnv
  /\ faults = RetryFaults
  /\ pending = 0
  /\ arrivals = 1
  /\ aborts = 0

NextRetry ==
  \/ \E r \in Requests : Arrive(r, TRUE, TRUE)
  \/ \E r \in Requests : PostAcquire(r)
  \/ \E r \in Requests : \E retryAfter \in RetryAfters : FetchRateLimited(r, retryAfter)
  \/ \E r \in Requests : Sleep429Wake(r)
  \/ \E r \in Requests : \E a \in RetryAnswers : FetchFailed(r, a)
  \/ \E r \in Requests : BackoffWake(r)
  \/ \E r \in Requests : \E body \in HandlerBodies(req[r].ctx) : FetchOk(r, body)
  \/ Elapse
  \/ Tick

RetrySpec == InitRetry /\ [][NextRetry]_vars

\* The cooldown under load: up to CooldownRequests valid requests beside the
\* handler of /api/models, an upstream that answers 429 up to CooldownFaults
\* times, with or without a Retry-After header.
InitCooldown ==
  /\ InitState
  /\ call = NoCall
  /\ ui = NoReader
  /\ env \in {[DefaultEnv EXCEPT !.VEO_MAX_CONCURRENT = n] : n \in 1..MaxSlots}
  /\ faults = CooldownFaults
  /\ pending = 0
  /\ arrivals = CooldownRequests
  /\ aborts = 0

NextCooldown ==
  \/ \E r \in Requests : Arrive(r, TRUE, TRUE)
  \/ \E r \in Requests : WakeCooldownDirect(r)
  \/ \E r \in Requests : ResumeWoken(r)
  \/ \E r \in Requests : WakeCooldownWoken(r)
  \/ \E r \in Requests : PostAcquire(r)
  \/ CallModels
  \/ \E r \in Procs : \E retryAfter \in RetryAfters : FetchRateLimited(r, retryAfter)
  \/ \E r \in Procs : Sleep429Wake(r)
  \/ \E r \in Procs : \E body \in {"name", "doneUri", "models"} : FetchOk(r, body)
  \/ Elapse
  \/ Tick

CooldownSpec == InitCooldown /\ [][NextCooldown]_vars

\* The configurations the start call is explored under.
AdapterEnvs ==
  {[DefaultEnv EXCEPT !.VEO_REQUIRE_IMAGE = q, !.VEO_ALLOW_IMAGE_FALLBACK = f,
                      !.VEO_GEMINI_IMAGE_MODE = m, !.VEO_PERSON_GENERATION = p] :
     q \in BOOLEAN, f \in BOOLEAN, m \in {"first_frame", "reference"}, p \in BOOLEAN}

\* The rejections of the start call: 400 naming a field, 400 about the image
\* payload, 400 and 500 with another text.
AdapterAnswers ==
  {Failure(400, {Backtick(f)}) : f \in NamedFields}
    \cup {Failure(400, {"for personGeneration is currently not supported"}),
          Failure(400, {"inlineData isn't supported"}),
          Failure(400, {}), Failure(500, {})}

\* The start call and its catch block: one request with an image, every
\* configuration of the image options, up to AdapterFaults rejections.
InitAdapter ==
  /\ InitState
  /\ call = NoCall
  /\ ui = NoReader
  /\ env \in AdapterEnvs
  /\ faults = AdapterFaults
  /\ pending = 0
  /\ arrivals = 1
  /\ aborts = 0

NextAdapter ==
  \/ \E r \in Requests : Arrive(r, TRUE, TRUE)
  \/ \E r \in Requests : PostAcquire(r)
  \/ \E r \in Requests : \E a \in AdapterAnswers : FetchFailed(r, a)
  \/ \E r \in Requests : BackoffWake(r)
  \/ \E r \in Requests : \E body \in {"name", "doneUri"} : FetchOk(r, body)
  \/ Elapse
  \/ Tick

AdapterSpec == InitAdapter /\ [][NextAdapter]_vars

\* The configurations of buildPromptFromImage.
PromptEnvs ==
  { DefaultEnv,
    [DefaultEnv EXCEPT !.VEO_USE_GEMINI3_PROMPT = TRUE],
    [DefaultEnv EXCEPT !.VEO_USE_GEMINI3_PROMPT = TRUE, !.VEO_MINIMAL_PROMPT = FALSE] }

\* One request from the prompt calls to the status checks: every
\* configuration of the prompt, up to PromptFaults failed attempts of any
\* kind, a client that may disconnect.
InitPrompt ==
  /\ InitState
  /\ call = NoCall
  /\ ui = NoReader
  /\ env \in PromptEnvs
  /\ faults = PromptFaults
  /\ pending = 0
  /\ arrivals = 1
  /\ aborts = PromptAborts

NextPrompt ==
  \/ \E r \in Requests : Arrive(r, TRUE, TRUE)
  \/ \E r \in Requests : Abort(r)
  \/ \E r \in Requests : PostAcquire(r)
  \/ \E r \in Requests : \E retryAfter \in RetryAfters : FetchRateLimited(r, retryAfter)
  \/ \E r \in Requests : Sleep429Wake(r)
  \/ \E r \in Requests : \E a \in ErrAnswers(req[r].ctx) : FetchFailed(r, a)
  \/ \E r \in Requests : BackoffWake(r)
  \/ \E r \in Requests : \E body \in HandlerBodies(req[r].ctx) : FetchOk(r, body)
  \/ Elapse
  \/ Tick

PromptSpec == InitPrompt /\ [][NextPrompt]_vars

\* The gate with limiting disabled: up to UnlimitedRequests valid requests,
\* VEO_MAX_CONCURRENT below 1, upstream calls that succeed or are rate
\* limited.
InitUnlimited ==
  /\ InitState
  /\ call = NoCall
  /\ ui = NoReader
  /\ env \in {[DefaultEnv EXCEPT !.VEO_MAX_CONCURRENT = n] : n \in {0, -1}}
  /\ faults = UnlimitedFaults
  /\ pending = 0
  /\ arrivals = UnlimitedRequests
  /\ aborts = 0

NextUnlimited ==
  \/ \E r \in Requests : Arrive(r, TRUE, TRUE)
  \/ \E r \in Requests : PostAcquire(r)
  \/ \E r \in Requests : \E retryAfter \in RetryAfters : FetchRateLimited(r, retryAfter)
  \/ \E r \in Requests : Sleep429Wake(r)
  \/ \E r \in Requests : \E body \in {"name", "doneUri"} : FetchOk(r, body)
  \/ Elapse
  \/ Tick

UnlimitedSpec == InitUnlimited /\ [][NextUnlimited]_vars

\* The server at rest, for the functions explored on their own.
AtRest ==
  /\ InitState
  /\ faults = 0
  /\ pending = 0
  /\ arrivals = 0
  /\ aborts = 0

\* The arguments buildVeoRequestBody is explored on.
BuildArgs ==
  [prompt : {"prompt"}, imageData : {"", "imageData"}, mimeType : {"", "image/png"},
   aspectRatio : {"9:16", "16:9", "1:1"}, resolution : {"", "1080p"},
   personGeneration : {"", "allow_adult"},
   numberOfVideos : {Undefined} \cup {Integer(n) : n \in -1..MaxVideos},
   seed : {Undefined, Integer(7)},
   includeImage : {"undefined", "true", "false"},
   imageMode : {"undefined", "first_frame", "reference"}]

\* buildVeoRequestBody on its own: the body of any arguments, then up to
\* MaxBuilds - 1 more bodies of the same arguments with imageMode changed.
InitBuild ==
  /\ AtRest
  /\ ui = NoReader
  /\ env = DefaultEnv
  /\ call \in {[fn |-> "buildVeoRequestBody", args |-> a, modes |-> <<>>, bodies |-> <<>>] :
                 a \in BuildArgs}

BuildFirst ==
  /\ call.fn = "buildVeoRequestBody"
  /\ call.bodies = <<>>
  /\ call' = [call EXCEPT !.modes = <<call.args.imageMode>>,
                           !.bodies = <<buildVeoRequestBody(call.args)>>]
  /\ UNCHANGED <<ui, env, now, veoCooldownUntil, veoInFlight, veoQueue, req, faults,
                 pending, nextTicket, arrivals, aborts>>

Rebuild(imageMode) ==
  /\ call.fn = "buildVeoRequestBody"
  /\ Len(call.bodies) \in 1..(MaxBuilds - 1)
  /\ call' = [call EXCEPT
                !.modes = Append(@, imageMode),
                !.bodies = Append(@, buildVeoRequestBody(
                                        [call.args EXCEPT !.imageMode = imageMode]))]
  /\ UNCHANGED <<ui, env, now, veoCooldownUntil, veoInFlight, veoQueue, req, faults,
                 pending, nextTicket, arrivals, aborts>>

NextBuild ==
  \/ BuildFirst
  \/ \E imageMode \in {"first_frame", "reference"} : Rebuild(imageMode)

BuildSpec == InitBuild /\ [][NextBuild]_vars

\* ------------------------------------------------ GET /api/veo/download
GeminiHost == "generativelanguage.googleapis.com"
StorageHost == "storage.googleapis.com"

\* The url parameter as written: absent, given twice (an array), or a text
\* <scheme>://<userinfo>@<host>:<port>/<path>?<query> whose parts may be
\* empty; path is the sequence of the segments after the host, each one
\* preceded by "/".
Segments == {"v1beta", "files", "..", "video"}
Paths == UNION {[1..n -> Segments] : n \in 0..MaxSegments}
Texts ==
  {u \in [kind : {"text"},
          scheme : {"", "gs", "GS", "http", "https", "HTTPS"},
          userinfo : {"", "evil.example"},
          host : {"", GeminiHost, "GENERATIVELANGUAGE.GOOGLEAPIS.COM", "evil.example",
                  "generativelanguage.googleapis.com.evil.example"},
          port : {"", "8443"},
          path : Paths,
          query : {"", "key=other"}] :
     u.host = "" => u.scheme \in {"", "gs", "GS"}}
NoText(kind) ==
  [kind |-> kind, scheme |-> "", userinfo |-> "", host |-> "", port |-> "",
   path |-> <<>>, query |-> ""]
UrlParams == Texts \cup {NoText("missing"), NoText("array")}

\* The text is the empty string.
IsEmpty(u) ==
  u.scheme = "" /\ u.userinfo = "" /\ u.host = "" /\ u.port = "" /\ u.path = <<>>
    /\ u.query = ""

\* ASCII lower case, on the texts above.
Lower(t) ==
  CASE t = "HTTPS" -> "https"
    [] t = "GS" -> "gs"
    [] t = "GENERATIVELANGUAGE.GOOGLEAPIS.COM" -> GeminiHost
    [] OTHER -> t

\* The path of a parsed URL: a segment ".." removes the segment before it,
\* and leaves an empty last segment when it is the last one.
RECURSIVE RemoveDotSegments(_, _)
RemoveDotSegments(segs, out) ==
  IF segs = <<>> THEN out
  ELSE IF Head(segs) = ".."
  THEN LET shortened == IF out = <<>> THEN <<>> ELSE SubSeq(out, 1, Len(out) - 1) IN
       IF Tail(segs) = <<>> THEN Append(shortened, "")
       ELSE RemoveDotSegments(Tail(segs), shortened)
  ELSE RemoveDotSegments(Tail(segs), Append(out, Head(segs)))

\* new URL(text): it throws on a text without a scheme; scheme and host come
\* out in lower case, the path of an http(s) URL without its dot segments.
new_URL(u) ==
  IF u.scheme = "" THEN [ok |-> FALSE]
  ELSE LET special == Lower(u.scheme) \in {"http", "https"} IN
       [ok |-> TRUE,
        protocol |-> IF Lower(u.scheme) = "https" THEN "https:"
                     ELSE IF Lower(u.scheme) = "http" THEN "http:" ELSE "gs:",
        username |-> u.userinfo,
        hostname |-> IF special THEN Lower(u.host) ELSE u.host,
        port |-> u.port,
        pathname |-> IF special THEN RemoveDotSegments(u.path, <<>>) ELSE u.path,
        search |-> u.query]

\* pathname.startsWith('/v1beta/files/')
StartsWithFiles(pathname) ==
  Len(pathname) >= 3 /\ pathname[1] = "v1beta" /\ pathname[2] = "files"

\* The groups of /^gs:\/\/([^/]+)\/(.+)$/ are not empty.
Bucket(u) == u.userinfo # "" \/ u.host # "" \/ u.port # ""
ObjectPath(u) == u.path # <<>> /\ (u.query # "" \/ u.path # <<"">>)

\* The handler's response without an upstream request, and after one: the
\* upstream's status when not ok, 502 without a body, 500 when fetch or the
\* stream throws, 200 otherwise.
Response(status) == [status |-> status, requests |-> <<>>]
Fetched(request, upstream) ==
  [status |-> CASE upstream = "ok" -> 200 [] upstream = "notFound" -> 404
                [] upstream = "noBody" -> 502 [] OTHER -> 500,
   requests |-> <<request>>]

\* Faulty variant of download: the host of the URL is not looked at.
download_AnyHost(u, tokenOk, upstream) ==
  IF ~env.GEMINI_API_KEY THEN Response(500)
  ELSE IF u.kind # "text" \/ IsEmpty(u) THEN Response(400)
  ELSE IF u.scheme = "gs"
  THEN IF ~(Bucket(u) /\ ObjectPath(u)) THEN Response(400)
       ELSE IF ~tokenOk THEN Response(500)
       ELSE Fetched([host |-> StorageHost, port |-> "", path |-> <<"storage", "v1", "b">>,
                     key |-> FALSE, bearer |-> TRUE], upstream)
  ELSE LET target == new_URL(u) IN
       IF ~target.ok THEN Response(400)
       ELSE IF target.protocol # "https:"
       THEN Response(400)
       ELSE IF ~StartsWithFiles(target.pathname) THEN Response(400)
       ELSE IF target.username # "" THEN Response(500)
       ELSE Fetched([host |-> target.hostname, port |-> target.port,
                     path |-> target.pathname, key |-> TRUE, bearer |-> FALSE],
                    upstream)

\* The handler of GET /api/veo/download for the url parameter u, with
\* getAccessToken succeeding iff tokenOk and the upstream answering as given.
download(u, tokenOk, upstream) ==
  IF ~env.GEMINI_API_KEY THEN Response(500)
  ELSE IF u.kind # "text" \/ IsEmpty(u) THEN Response(400)
  ELSE IF u.scheme = "gs"
  THEN IF ~(Bucket(u) /\ ObjectPath(u)) THEN Response(400)
       ELSE IF ~tokenOk THEN Response(500)
       ELSE Fetched([host |-> StorageHost, port |-> "", path |-> <<"storage", "v1", "b">>,
                     key |-> FALSE, bearer |-> TRUE], upstream)
  ELSE LET target == new_URL(u) IN
       IF ~target.ok THEN Response(400)
       ELSE IF target.protocol # "https:" \/ target.hostname # GeminiHost
       THEN Response(400)
       ELSE IF ~StartsWithFiles(target.pathname) THEN Response(400)
       ELSE IF target.username # "" THEN Response(500)
       ELSE Fetched([host |-> target.hostname, port |-> target.port,
                     path |-> target.pathname, key |-> TRUE, bearer |-> FALSE],
                    upstream)

\* GET /api/veo/download on its own: any url parameter, with and without
\* GEMINI_API_KEY.
InitDownload ==
  /\ AtRest
  /\ ui = NoReader
  /\ env \in {DefaultEnv, [DefaultEnv EXCEPT !.GEMINI_API_KEY = FALSE]}
  /\ call \in {[fn |-> "download", url |-> u, answered |-> FALSE, status |-> 0,
                 requests |-> <<>>] : u \in UrlParams}

Download(tokenOk, upstream) ==
  /\ call.fn = "download"
  /\ ~call.answered
  /\ LET out == download(call.url, tokenOk, upstream) IN
     call' = [call EXCEPT !.answered = TRUE, !.status = out.status,
                          !.requests = out.requests]
  /\ UNCHANGED <<ui, env, now, veoCooldownUntil, veoInFlight, veoQueue, req, faults,
                 pending, nextTicket, arrivals, aborts>>

NextDownload ==
  \E tokenOk \in BOOLEAN : \E upstream \in {"ok", "notFound", "noBody", "throws"} :
    Download(tokenOk, upstream)

DownloadSpec == InitDownload /\ [][NextDownload]_vars

\* ------------------------------------------------------- sanitizePrompt
\* A text is the sequence of its characters.  A pattern is a sequence of
\* lower-case characters in which "\\s*" stands for any number of white-space
\* characters, "\\s+" for one or more of them and "[^\\n]*" for any number of characters other than \ and n.
\* A replacement rule holds the alternatives of its regular expression in
\* the order the expression tries them (the optional parts expanded, the
\* longer reading first), whether it stands between two \b, and the text put
\* in place of a match.
replacements ==
  <<
    \* /chainsaw\s*man/gi -> 'illustrated character'
    [b |-> FALSE,
     alts |-> <<<<"c", "h", "a", "i", "n", "s", "a", "w", "\\s*", "m", "a", "n">>>>,
     rep |-> <<"i", "l", "l", "u", "s", "t", "r", "a", "t", "e", "d", " ", "c", "h", "a", "r", "a", "c", "t", "e", "r">>],
    \* /denji|kishibe|quanxi|pochita|poccontacta/gi -> 'character'
    [b |-> FALSE,
     alts |-> <<<<"d", "e", "n", "j", "i">>,
              <<"k", "i", "s", "h", "i", "b", "e">>,
              <<"q", "u", "a", "n", "x", "i">>,
              <<"p", "o", "c", "h", "i", "t", "a">>,
              <<"p", "o", "c", "c", "o", "n", "t", "a", "c", "t", "a">>>>,
     rep |-> <<"c", "h", "a", "r", "a", "c", "t", "e", "r">>],
    \* /\bchild(?:ren)?\b/gi -> 'person'
    [b |-> TRUE,
     alts |-> <<<<"c", "h", "i", "l", "d", "r", "e", "n">>,
              <<"c", "h", "i", "l", "d">>>>,
     rep |-> <<"p", "e", "r", "s", "o", "n">>],
    \* /\bkid(?:s)?\b/gi -> 'person'
    [b |-> TRUE,
     alts |-> <<<<"k", "i", "d", "s">>,
              <<"k", "i", "d">>>>,
     rep |-> <<"p", "e", "r", "s", "o", "n">>],
    \* /\bteen(?:ager|s)?\b/gi -> 'person'
    [b |-> TRUE,
     alts |-> <<<<"t", "e", "e", "n", "a", "g", "e", "r">>,
              <<"t", "e", "e", "n", "s">>,
              <<"t", "e", "e", "n">>>>,
     rep |-> <<"p", "e", "r", "s", "o", "n">>],
    \* /\bminor(?:s)?\b/gi -> 'person'
    [b |-> TRUE,
     alts |-> <<<<"m", "i", "n", "o", "r", "s">>,
              <<"m", "i", "n", "o", "r">>>>,
     rep |-> <<"p", "e", "r", "s", "o", "n">>],
    \* /\byouth(?:s)?\b/gi -> 'person'
    [b |-> TRUE,
     alts |-> <<<<"y", "o", "u", "t", "h", "s">>,
              <<"y", "o", "u", "t", "h">>>>,
     rep |-> <<"p", "e", "r", "s", "o", "n">>],
    \* /\byoung\b/gi -> ''
    [b |-> TRUE,
     alts |-> <<<<"y", "o", "u", "n", "g">>>>,
     rep |-> <<>>],
    \* /\bboy(?:s)?\b/gi -> 'person'
    [b |-> TRUE,
     alts |-> <<<<"b", "o", "y", "s">>,
              <<"b", "o", "y">>>>,
     rep |-> <<"p", "e", "r", "s", "o", "n">>],
    \* /\bgirl(?:s)?\b/gi -> 'person'
    [b |-> TRUE,
     alts |-> <<<<"g", "i", "r", "l", "s">>,
              <<"g", "i", "r", "l">>>>,
     rep |-> <<"p", "e", "r", "s", "o", "n">>],
    \* /\bman\b/gi -> 'person'
    [b |-> TRUE,
     alts |-> <<<<"m", "a", "n">>>>,
     rep |-> <<"p", "e", "r", "s", "o", "n">>],
    \* /\bwoman\b/gi -> 'person'
    [b |-> TRUE,
     alts |-> <<<<"w", "o", "m", "a", "n">>>>,
     rep |-> <<"p", "e", "r", "s", "o", "n">>],
    \* /\bolder\b/gi -> ''
    [b |-> TRUE,
     alts |-> <<<<"o", "l", "d", "e", "r">>>>,
     rep |-> <<>>],
    \* /chainsaw/gi -> 'mechanical tool'
    [b |-> FALSE,
     alts |-> <<<<"c", "h", "a", "i", "n", "s", "a", "w">>>>,
     rep |-> <<"m", "e", "c", "h", "a", "n", "i", "c", "a", "l", " ", "t", "o", "o", "l">>],
    \* /chain\s*saw/gi -> 'mechanical tool'
    [b |-> FALSE,
     alts |-> <<<<"c", "h", "a", "i", "n", "\\s*", "s", "a", "w">>>>,
     rep |-> <<"m", "e", "c", "h", "a", "n", "i", "c", "a", "l", " ", "t", "o", "o", "l">>],
    \* /blade(s)?/gi -> 'edge'
    [b |-> FALSE,
     alts |-> <<<<"b", "l", "a", "d", "e", "s">>,
              <<"b", "l", "a", "d", "e">>>>,
     rep |-> <<"e", "d", "g", "e">>],
    \* /\bsaw\b/gi -> 'tool'
    [b |-> TRUE,
     alts |-> <<<<"s", "a", "w">>>>,
     rep |-> <<"t", "o", "o", "l">>],
    \* /serrated/gi -> 'mechanical'
    [b |-> FALSE,
     alts |-> <<<<"s", "e", "r", "r", "a", "t", "e", "d">>>>,
     rep |-> <<"m", "e", "c", "h", "a", "n", "i", "c", "a", "l">>],
    \* /jagged/gi -> 'angular'
    [b |-> FALSE,
     alts |-> <<<<"j", "a", "g", "g", "e", "d">>>>,
     rep |-> <<"a", "n", "g", "u", "l", "a", "r">>],
    \* /spiked?|spiky/gi -> 'angular'
    [b |-> FALSE,
     alts |-> <<<<"s", "p", "i", "k", "e", "d">>,
              <<"s", "p", "i", "k", "e">>,
              <<"s", "p", "i", "k", "y">>>>,
     rep |-> <<"a", "n", "g", "u", "l", "a", "r">>],
    \* /\blip(?:s)?\b/gi -> 'face'
    [b |-> TRUE,
     alts |-> <<<<"l", "i", "p", "s">>,
              <<"l", "i", "p">>>>,
     rep |-> <<"f", "a", "c", "e">>],
    \* /\bmouth(?:s)?\b/gi -> 'face'
    [b |-> TRUE,
     alts |-> <<<<"m", "o", "u", "t", "h", "s">>,
              <<"m", "o", "u", "t", "h">>>>,
     rep |-> <<"f", "a", "c", "e">>],
    \* /\btongue\b/gi -> 'detail'
    [b |-> TRUE,
     alts |-> <<<<"t", "o", "n", "g", "u", "e">>>>,
     rep |-> <<"d", "e", "t", "a", "i", "l">>],
    \* /kill(?:ing|ed|s|er)?/gi -> ''
    [b |-> FALSE,
     alts |-> <<<<"k", "i", "l", "l", "i", "n", "g">>,
              <<"k", "i", "l", "l", "e", "d">>,
              <<"k", "i", "l", "l", "s">>,
              <<"k", "i", "l", "l", "e", "r">>,
              <<"k", "i", "l", "l">>>>,
     rep |-> <<>>],
    \* /murder(?:ed|ing|er)?/gi -> ''
    [b |-> FALSE,
     alts |-> <<<<"m", "u", "r", "d", "e", "r", "e", "d">>,
              <<"m", "u", "r", "d", "e", "r", "i", "n", "g">>,
              <<"m", "u", "r", "d", "e", "r", "e", "r">>,
              <<"m", "u", "r", "d", "e", "r">>>>,
     rep |-> <<>>],
    \* /death|dead|dying|die/gi -> ''
    [b |-> FALSE,
     alts |-> <<<<"d", "e", "a", "t", "h">>,
              <<"d", "e", "a", "d">>,
              <<"d", "y", "i", "n", "g">>,
              <<"d", "i", "e">>>>,
     rep |-> <<>>],
    \* /corpse|guts?|viscera/gi -> ''
    [b |-> FALSE,
     alts |-> <<<<"c", "o", "r", "p", "s", "e">>,
              <<"g", "u", "t", "s">>,
              <<"g", "u", "t">>,
              <<"v", "i", "s", "c", "e", "r", "a">>>>,
     rep |-> <<>>],
    \* /blood(?:y)?/gi -> ''
    [b |-> FALSE,
     alts |-> <<<<"b", "l", "o", "o", "d", "y">>,
              <<"b", "l", "o", "o", "d">>>>,
     rep |-> <<>>],
    \* /bleed(?:ing)?/gi -> ''
    [b |-> FALSE,
     alts |-> <<<<"b", "l", "e", "e", "d", "i", "n", "g">>,
              <<"b", "l", "e", "e", "d">>>>,
     rep |-> <<>>],
    \* /gore|gory/gi -> ''
    [b |-> FALSE,
     alts |-> <<<<"g", "o", "r", "e">>,
              <<"g", "o", "r", "y">>>>,
     rep |-> <<>>],
    \* /wound(?:ed|s)?/gi -> ''
    [b |-> FALSE,
     alts |-> <<<<"w", "o", "u", "n", "d", "e", "d">>,
              <<"w", "o", "u", "n", "d", "s">>,
              <<"w", "o", "u", "n", "d">>>>,
     rep |-> <<>>],
    \* /injur(?:e|ed|y|ies)/gi -> ''
    [b |-> FALSE,
     alts |-> <<<<"i", "n", "j", "u", "r", "e">>,
              <<"i", "n", "j", "u", "r", "e", "d">>,
              <<"i", "n", "j", "u", "r", "y">>,
              <<"i", "n", "j", "u", "r", "i", "e", "s">>>>,
     rep |-> <<>>],
    \* /hurt(?:ing)?/gi -> ''
    [b |-> FALSE,
     alts |-> <<<<"h", "u", "r", "t", "i", "n", "g">>,
              <<"h", "u", "r", "t">>>>,
     rep |-> <<>>],
    \* /pain(?:ful|fully)?|agony|suffer(?:ing)?/gi -> ''
    [b |-> FALSE,
     alts |-> <<<<"p", "a", "i", "n", "f", "u", "l">>,
              <<"p", "a", "i", "n", "f", "u", "l", "l", "y">>,
              <<"p", "a", "i", "n">>,
              <<"a", "g", "o", "n", "y">>,
              <<"s", "u", "f", "f", "e", "r", "i", "n", "g">>,
              <<"s", "u", "f", "f", "e", "r">>>>,
     rep |-> <<>>],
    \* /victim(s)?/gi -> 'figure'
    [b |-> FALSE,
     alts |-> <<<<"v", "i", "c", "t", "i", "m", "s">>,
              <<"v", "i", "c", "t", "i", "m">>>>,
     rep |-> <<"f", "i", "g", "u", "r", "e">>],
    \* /attack(?:ing|ed|s)?/gi -> 'dynamic motion'
    [b |-> FALSE,
     alts |-> <<<<"a", "t", "t", "a", "c", "k", "i", "n", "g">>,
              <<"a", "t", "t", "a", "c", "k", "e", "d">>,
              <<"a", "t", "t", "a", "c", "k", "s">>,
              <<"a", "t", "t", "a", "c", "k">>>>,
     rep |-> <<"d", "y", "n", "a", "m", "i", "c", " ", "m", "o", "t", "i", "o", "n">>],
    \* /fight(?:ing|s)?/gi -> 'dynamic motion'
    [b |-> FALSE,
     alts |-> <<<<"f", "i", "g", "h", "t", "i", "n", "g">>,
              <<"f", "i", "g", "h", "t", "s">>,
              <<"f", "i", "g", "h", "t">>>>,
     rep |-> <<"d", "y", "n", "a", "m", "i", "c", " ", "m", "o", "t", "i", "o", "n">>],
    \* /battle/gi -> 'dynamic scene'
    [b |-> FALSE,
     alts |-> <<<<"b", "a", "t", "t", "l", "e">>>>,
     rep |-> <<"d", "y", "n", "a", "m", "i", "c", " ", "s", "c", "e", "n", "e">>],
    \* /combat/gi -> 'dynamic movement'
    [b |-> FALSE,
     alts |-> <<<<"c", "o", "m", "b", "a", "t">>>>,
     rep |-> <<"d", "y", "n", "a", "m", "i", "c", " ", "m", "o", "v", "e", "m", "e", "n", "t">>],
    \* /strike(?:s|ing)?|hit(?:ting|s)?|slam(?:med|ming)?|smash(?:ed|ing)?/gi -> 'contact'
    [b |-> FALSE,
     alts |-> <<<<"s", "t", "r", "i", "k", "e", "s">>,
              <<"s", "t", "r", "i", "k", "e", "i", "n", "g">>,
              <<"s", "t", "r", "i", "k", "e">>,
              <<"h", "i", "t", "t", "i", "n", "g">>,
              <<"h", "i", "t", "s">>,
              <<"h", "i", "t">>,
              <<"s", "l", "a", "m", "m", "e", "d">>,
              <<"s", "l", "a", "m", "m", "i", "n", "g">>,
              <<"s", "l", "a", "m">>,
              <<"s", "m", "a", "s", "h", "e", "d">>,
              <<"s", "m", "a", "s", "h", "i", "n", "g">>,
              <<"s", "m", "a", "s", "h">>>>,
     rep |-> <<"c", "o", "n", "t", "a", "c", "t">>],
    \* /stomp(?:ed|ing)?|crush(?:ed|ing)?/gi -> 'press'
    [b |-> FALSE,
     alts |-> <<<<"s", "t", "o", "m", "p", "e", "d">>,
              <<"s", "t", "o", "m", "p", "i", "n", "g">>,
              <<"s", "t", "o", "m", "p">>,
              <<"c", "r", "u", "s", "h", "e", "d">>,
              <<"c", "r", "u", "s", "h", "i", "n", "g">>,
              <<"c", "r", "u", "s", "h">>>>,
     rep |-> <<"p", "r", "e", "s", "s">>],
    \* /cut(?:ting)?|slice(?:d|s|ing)?|slash(?:ed|ing)?|stab(?:bed|bing)?|pierc(?:e|ed|ing)|impal(?:e|ed|ing)/gi -> ''
    [b |-> FALSE,
     alts |-> <<<<"c", "u", "t", "t", "i", "n", "g">>,
              <<"c", "u", "t">>,
              <<"s", "l", "i", "c", "e", "d">>,
              <<"s", "l", "i", "c", "e", "s">>,
              <<"s", "l", "i", "c", "e", "i", "n", "g">>,
              <<"s", "l", "i", "c", "e">>,
              <<"s", "l", "a", "s", "h", "e", "d">>,
              <<"s", "l", "a", "s", "h", "i", "n", "g">>,
              <<"s", "l", "a", "s", "h">>,
              <<"s", "t", "a", "b", "b", "e", "d">>,
              <<"s", "t", "a", "b", "b", "i", "n", "g">>,
              <<"s", "t", "a", "b">>,
              <<"p", "i", "e", "r", "c", "e">>,
              <<"p", "i", "e", "r", "c", "e", "d">>,
              <<"p", "i", "e", "r", "c", "i", "n", "g">>,
              <<"i", "m", "p", "a", "l", "e">>,
              <<"i", "m", "p", "a", "l", "e", "d">>,
              <<"i", "m", "p", "a", "l", "i", "n", "g">>>>,
     rep |-> <<>>],
    \* /weapon(s)?/gi -> 'prop'
    [b |-> FALSE,
     alts |-> <<<<"w", "e", "a", "p", "o", "n", "s">>,
              <<"w", "e", "a", "p", "o", "n">>>>,
     rep |-> <<"p", "r", "o", "p">>],
    \* /gun(s)?/gi -> 'prop'
    [b |-> FALSE,
     alts |-> <<<<"g", "u", "n", "s">>,
              <<"g", "u", "n">>>>,
     rep |-> <<"p", "r", "o", "p">>],
    \* /knife|knives/gi -> 'prop'
    [b |-> FALSE,
     alts |-> <<<<"k", "n", "i", "f", "e">>,
              <<"k", "n", "i", "v", "e", "s">>>>,
     rep |-> <<"p", "r", "o", "p">>],
    \* /sword(s)?/gi -> 'prop'
    [b |-> FALSE,
     alts |-> <<<<"s", "w", "o", "r", "d", "s">>,
              <<"s", "w", "o", "r", "d">>>>,
     rep |-> <<"p", "r", "o", "p">>],
    \* /axe(s)?/gi -> 'prop'
    [b |-> FALSE,
     alts |-> <<<<"a", "x", "e", "s">>,
              <<"a", "x", "e">>>>,
     rep |-> <<"p", "r", "o", "p">>],
    \* /spear(s)?/gi -> 'prop'
    [b |-> FALSE,
     alts |-> <<<<"s", "p", "e", "a", "r", "s">>,
              <<"s", "p", "e", "a", "r">>>>,
     rep |-> <<"p", "r", "o", "p">>],
    \* /splatter(?:s|ed|ing)?/gi -> 'drift'
    [b |-> FALSE,
     alts |-> <<<<"s", "p", "l", "a", "t", "t", "e", "r", "s">>,
              <<"s", "p", "l", "a", "t", "t", "e", "r", "e", "d">>,
              <<"s", "p", "l", "a", "t", "t", "e", "r", "i", "n", "g">>,
              <<"s", "p", "l", "a", "t", "t", "e", "r">>>>,
     rep |-> <<"d", "r", "i", "f", "t">>],
    \* /splash(?:es|ed|ing)?/gi -> 'drift'
    [b |-> FALSE,
     alts |-> <<<<"s", "p", "l", "a", "s", "h", "e", "s">>,
              <<"s", "p", "l", "a", "s", "h", "e", "d">>,
              <<"s", "p", "l", "a", "s", "h", "i", "n", "g">>,
              <<"s", "p", "l", "a", "s", "h">>>>,
     rep |-> <<"d", "r", "i", "f", "t">>],
    \* /fluid/gi -> 'liquid'
    [b |-> FALSE,
     alts |-> <<<<"f", "l", "u", "i", "d">>>>,
     rep |-> <<"l", "i", "q", "u", "i", "d">>],
    \* /droplet(s)?/gi -> 'small particles'
    [b |-> FALSE,
     alts |-> <<<<"d", "r", "o", "p", "l", "e", "t", "s">>,
              <<"d", "r", "o", "p", "l", "e", "t">>>>,
     rep |-> <<"s", "m", "a", "l", "l", " ", "p", "a", "r", "t", "i", "c", "l", "e", "s">>],
    \* /liquid/gi -> 'color wash'
    [b |-> FALSE,
     alts |-> <<<<"l", "i", "q", "u", "i", "d">>>>,
     rep |-> <<"c", "o", "l", "o", "r", " ", "w", "a", "s", "h">>],
    \* /ooz(?:e|ing)?/gi -> 'rapid shift'
    [b |-> FALSE,
     alts |-> <<<<"o", "o", "z", "e">>,
              <<"o", "o", "z", "i", "n", "g">>,
              <<"o", "o", "z">>>>,
     rep |-> <<"r", "a", "p", "i", "d", " ", "s", "h", "i", "f", "t">>],
    \* /drip(?:ping|s)?/gi -> 'rapid shift'
    [b |-> FALSE,
     alts |-> <<<<"d", "r", "i", "p", "p", "i", "n", "g">>,
              <<"d", "r", "i", "p", "s">>,
              <<"d", "r", "i", "p">>>>,
     rep |-> <<"r", "a", "p", "i", "d", " ", "s", "h", "i", "f", "t">>],
    \* /simmer(?:ing)?/gi -> 'strong pulse'
    [b |-> FALSE,
     alts |-> <<<<"s", "i", "m", "m", "e", "r", "i", "n", "g">>,
              <<"s", "i", "m", "m", "e", "r">>>>,
     rep |-> <<"s", "t", "r", "o", "n", "g", " ", "p", "u", "l", "s", "e">>],
    \* /gasp(?:ing)?/gi -> 'heavy breathing'
    [b |-> FALSE,
     alts |-> <<<<"g", "a", "s", "p", "i", "n", "g">>,
              <<"g", "a", "s", "p">>>>,
     rep |-> <<"h", "e", "a", "v", "y", " ", "b", "r", "e", "a", "t", "h", "i", "n", "g">>],
    \* /collapsed|fallen|defeated|suppressed|crushing/gi -> 'resting'
    [b |-> FALSE,
     alts |-> <<<<"c", "o", "l", "l", "a", "p", "s", "e", "d">>,
              <<"f", "a", "l", "l", "e", "n">>,
              <<"d", "e", "f", "e", "a", "t", "e", "d">>,
              <<"s", "u", "p", "p", "r", "e", "s", "s", "e", "d">>,
              <<"c", "r", "u", "s", "h", "i", "n", "g">>>>,
     rep |-> <<"r", "e", "s", "t", "i", "n", "g">>],
    \* /pile|heap/gi -> 'group'
    [b |-> FALSE,
     alts |-> <<<<"p", "i", "l", "e">>,
              <<"h", "e", "a", "p">>>>,
     rep |-> <<"g", "r", "o", "u", "p">>],
    \* /\bboot\b/gi -> 'foot'
    [b |-> TRUE,
     alts |-> <<<<"b", "o", "o", "t">>>>,
     rep |-> <<"f", "o", "o", "t">>],
    \* /debris|fragments?/gi -> 'particles'
    [b |-> FALSE,
     alts |-> <<<<"d", "e", "b", "r", "i", "s">>,
              <<"f", "r", "a", "g", "m", "e", "n", "t", "s">>,
              <<"f", "r", "a", "g", "m", "e", "n", "t">>>>,
     rep |-> <<"p", "a", "r", "t", "i", "c", "l", "e", "s">>],
    \* /dust|ash/gi -> 'grain'
    [b |-> FALSE,
     alts |-> <<<<"d", "u", "s", "t">>,
              <<"a", "s", "h">>>>,
     rep |-> <<"g", "r", "a", "i", "n">>],
    \* /explod(?:e|ed|ing)|explosion/gi -> 'glow pulse'
    [b |-> FALSE,
     alts |-> <<<<"e", "x", "p", "l", "o", "d", "e">>,
              <<"e", "x", "p", "l", "o", "d", "e", "d">>,
              <<"e", "x", "p", "l", "o", "d", "i", "n", "g">>,
              <<"e", "x", "p", "l", "o", "s", "i", "o", "n">>>>,
     rep |-> <<"g", "l", "o", "w", " ", "p", "u", "l", "s", "e">>],
    \* /maw|fang(s)?|jaw/gi -> 'smile'
    [b |-> FALSE,
     alts |-> <<<<"m", "a", "w">>,
              <<"f", "a", "n", "g", "s">>,
              <<"f", "a", "n", "g">>,
              <<"j", "a", "w">>>>,
     rep |-> <<"s", "m", "i", "l", "e">>],
    \* /teeth/gi -> 'smile'
    [b |-> FALSE,
     alts |-> <<<<"t", "e", "e", "t", "h">>>>,
     rep |-> <<"s", "m", "i", "l", "e">>],
    \* /toothy/gi -> 'wide'
    [b |-> FALSE,
     alts |-> <<<<"t", "o", "o", "t", "h", "y">>>>,
     rep |-> <<"w", "i", "d", "e">>]
  >>

\* The rule applied after the list.
backgroundRule ==
  [b |-> FALSE,
   alts |-> <<<<"b", "a", "c", "k", "g", "r", "o", "u", "n", "d", ":", "\\s*",
              "c", "o", "m", "p", "l", "e", "t", "e", "l", "y", " ", "s", "t", "a", "t", "i", "c", "[^\\n]*">>>>,
   rep |-> <<"P", "a", "n", "e", "l", "/", "P", "r", "o", "p", "s", ":", " ", "s", "t", "r", "o", "n", "g", " ", "c", "o", "n", "t", "i", "n", "u", "o", "u", "s", " ", "m", "o", "t", "i", "o", "n", " ", "o", "f", " ", "e", "x", "i", "s", "t", "i", "n", "g", " ", "d", "e", "t", "a", "i", "l", "s">>]

Letters ==
  {"a", "b", "c", "d", "e", "f", "g", "h", "i", "j", "k", "l", "m", "n", "o", "p",
   "q", "r", "s", "t", "u", "v", "w", "x", "y", "z", "P", "G", "O", "V", "R"}
WhiteSpace == {" ", "\n"}
\* The back-tick character.
Grave == "grave accent"
\* The characters of the texts explored.
Characters == Letters \cup WhiteSpace \cup {":", "/", Grave, "'"}

\* The i flag, on the characters of the texts explored.
LowerChar(c) ==
  CASE c = "P" -> "p" [] c = "G" -> "g" [] c = "O" -> "o" [] c = "V" -> "v"
    [] c = "R" -> "r" [] OTHER -> c

\* \b holds before position i of text.
WordBoundary(text, i) ==
  (i - 1 \in 1..Len(text) /\ text[i - 1] \in Letters)
    # (i \in 1..Len(text) /\ text[i] \in Letters)

\* The first position from i on whose character is not in the set.
SkipWhile(text, i, set) ==
  Least({j \in i .. Len(text) + 1 : j > Len(text) \/ text[j] \notin set})

\* The items of a pattern that are not one character.
Classes == {"\\s*", "\\s+", "[^\\n]*"}

\* The position after the match of pattern[k..] at position i of text, or 0;
\* the characters up to the next class are compared at once.
RECURSIVE MatchFrom(_, _, _, _)
MatchFrom(pattern, k, text, i) ==
  IF k > Len(pattern) THEN i
  ELSE IF pattern[k] = "\\s*"
  THEN MatchFrom(pattern, k + 1, text, SkipWhile(text, i, WhiteSpace))
  ELSE IF pattern[k] = "\\s+"
  THEN IF i <= Len(text) /\ text[i] \in WhiteSpace
       THEN MatchFrom(pattern, k + 1, text, SkipWhile(text, i, WhiteSpace))
       ELSE 0
  ELSE IF pattern[k] = "[^\\n]*"
  THEN MatchFrom(pattern, k + 1, text,
                 SkipWhile(text, i, Characters \ {"\\", "n"}))
  ELSE LET n == Least({m \in 1 .. Len(pattern) - k + 1 :
                          k + m > Len(pattern) \/ pattern[k + m] \in Classes})
       IN IF /\ i + n - 1 <= Len(text)
             /\ \A d \in 0 .. n - 1 : LowerChar(text[i + d]) = pattern[k + d]
          THEN MatchFrom(pattern, k + n, text, i + n)
          ELSE 0

\* The position after the match of the rule at position i of text, or 0:
\* the first alternative from a on that matches there.
MatchRule(rule, a, text, i) ==
  LET End(alt) == IF rule.b /\ ~WordBoundary(text, i) THEN 0
                  ELSE MatchFrom(rule.alts[alt], 1, text, i)
      matching == {alt \in a .. Len(rule.alts) :
                     End(alt) # 0 /\ (rule.b => WordBoundary(text, End(alt)))}
  IN IF matching = {} THEN 0 ELSE End(Least(matching))

\* text.replace(pattern, replacement) with the g flag, from position i on.
RECURSIVE Replace(_, _, _, _)
Replace(rule, text, i, out) ==
  LET matches == {j \in i .. Len(text) : MatchRule(rule, 1, text, j) # 0} IN
  IF matches = {} THEN out \o SubSeq(text, i, Len(text))
  ELSE LET j == Least(matches) IN
       Replace(rule, text, MatchRule(rule, 1, text, j),
               out \o SubSeq(text, i, j - 1) \o rule.rep)

\* The loop over the replacements lo..hi, in their order; no replacement
\* matches in an empty text.
RECURSIVE ApplyRules(_, _, _)
ApplyRules(lo, hi, text) ==
  IF lo > hi THEN text
  ELSE IF lo = hi THEN Replace(replacements[lo], text, 1, <<>>)
  ELSE LET mid == (lo + hi) \div 2
           output == ApplyRules(lo, mid, text)
       IN IF Len(output) = 0 THEN output ELSE ApplyRules(mid + 1, hi, output)

\* The loop over the replacements, from the k-th on.
ApplyReplacements(k, text) == ApplyRules(k, Len(replacements), text)

\* replace(/\s{2,}/g, ' ')
RECURSIVE CollapseSpaces(_, _, _)
CollapseSpaces(text, i, out) ==
  LET runs == {j \in i .. Len(text) - 1 :
                 text[j] \in WhiteSpace /\ text[j + 1] \in WhiteSpace} IN
  IF runs = {} THEN out \o SubSeq(text, i, Len(text))
  ELSE LET j == Least(runs) IN
       CollapseSpaces(text, SkipWhile(text, j, WhiteSpace),
                      Append(out \o SubSeq(text, i, j - 1), " "))

\* trim()
RECURSIVE Trim(_)
Trim(text) ==
  IF text = <<>> THEN text
  ELSE IF Head(text) \in WhiteSpace THEN Trim(Tail(text))
  ELSE IF text[Len(text)] \in WhiteSpace THEN Trim(SubSeq(text, 1, Len(text) - 1))
  ELSE text

sanitizePrompt(text) ==
  Trim(CollapseSpaces(Replace(backgroundRule, ApplyReplacements(1, text), 1, <<>>),
                      1, <<>>))

\* The texts sanitizePrompt is explored on: up to MaxFragments of these
\* pieces, one after the other.
Fragments ==
  {<<"d", "e", "a", "d">>,
   <<"m", "a", "n">>,
   <<"k", "i">>,
   <<"l", "l">>,
   <<" ">>,
   <<"y", "o", "u", "n", "g">>,
   <<"f", "l", "u", "i", "d">>,
   <<"s", "a", "w">>,
   <<"b", "a", "c", "k", "g", "r", "o", "u", "n", "d", ":", " ", "c", "o", "m", "p", "l", "e", "t", "e", "l", "y", " ", "s", "t", "a", "t", "i", "c">>}
RECURSIVE Concat(_)
Concat(pieces) == IF pieces = <<>> THEN <<>> ELSE Head(pieces) \o Concat(Tail(pieces))
PromptTexts == {Concat(pieces) : pieces \in UNION {[1..n -> Fragments] : n \in 0..MaxFragments}}

\* sanitizePrompt on its own: a text is sanitized, and the result once more.
InitSanitize ==
  /\ AtRest
  /\ ui = NoReader
  /\ env = DefaultEnv
  /\ call \in {[fn |-> "sanitizePrompt", input |-> t, passes |-> 0, previous |-> t,
                 text |-> t] : t \in PromptTexts}

Sanitize ==
  /\ call.fn = "sanitizePrompt"
  /\ call.passes < 2
  /\ call' = [call EXCEPT !.passes = @ + 1, !.previous = call.text,
                          !.text = sanitizePrompt(call.text)]
  /\ UNCHANGED <<ui, env, now, veoCooldownUntil, veoInFlight, veoQueue, req, faults,
                 pending, nextTicket, arrivals, aborts>>

NextSanitize == Sanitize

SanitizeSpec == InitSanitize /\ [][NextSanitize]_vars

\* -------------------------------------------------- getUnsupportedField
\* The function on the text of a message.  Its answer: whether a pattern
\* matched and the name returned (null: no match, no name).
Null == [matched |-> FALSE, field |-> <<>>]
Name(field) == [matched |-> TRUE, field |-> field]

isntSupported == <<"i", "s", "n", "'", "t", " ", "s", "u", "p", "p", "o", "r", "t", "e", "d">>
personGenerationPattern ==
  <<"f", "o", "r">> \o <<"\\s+">>
    \o <<"p", "e", "r", "s", "o", "n", "g", "e", "n", "e", "r", "a", "t", "i", "o", "n">> \o <<"\\s+">>
    \o <<"i", "s", " ", "c", "u", "r", "r", "e", "n", "t", "l", "y", " ", "n", "o", "t", " ", "s", "u", "p", "p", "o", "r", "t", "e", "d">>
notSupported == <<"n", "o", "t", " ", "s", "u", "p", "p", "o", "r", "t", "e", "d">>
genericRule ==
  [b |-> TRUE,
   alts |-> <<<<"p", "e", "r", "s", "o", "n", "g", "e", "n", "e", "r", "a", "t", "i", "o", "n">>,
              <<"n", "u", "m", "b", "e", "r", "o", "f", "v", "i", "d", "e", "o", "s">>,
              <<"a", "s", "p", "e", "c", "t", "r", "a", "t", "i", "o">>,
              <<"r", "e", "s", "o", "l", "u", "t", "i", "o", "n">>>>]

\* /`([^`]+)`\s+isn't supported/i from position i on: the leftmost match.
RECURSIVE backtickMatch(_, _)
backtickMatch(message, i) ==
  IF i > Len(message) THEN Null
  ELSE LET close == SkipWhile(message, i + 1, Characters \ {Grave}) IN
       IF /\ message[i] = Grave
          /\ close > i + 1
          /\ close <= Len(message)
          /\ MatchFrom(<<"\\s+">> \o isntSupported, 1, message, close + 1) # 0
       THEN Name(SubSeq(message, i + 1, close - 1))
       ELSE backtickMatch(message, i + 1)

\* /for\s+personGeneration\s+is currently not supported/i
personGenerationMatch(message) ==
  \E i \in 1..Len(message) : MatchFrom(personGenerationPattern, 1, message, i) # 0

\* /\b(personGeneration|numberOfVideos|aspectRatio|resolution)\b.*not supported/i
\* from position i on: the leftmost match.  The dot matches no line break.
RECURSIVE genericMatch(_, _)
genericMatch(message, i) ==
  IF i > Len(message) THEN Null
  ELSE LET end == MatchRule(genericRule, 1, message, i) IN
       IF /\ end # 0
          /\ \E k \in end..Len(message) :
               /\ \A x \in end..(k - 1) : message[x] # "\n"
               /\ MatchFrom(notSupported, 1, message, k) # 0
       THEN Name(SubSeq(message, i, end - 1))
       ELSE genericMatch(message, i + 1)

\* Faulty variant of getUnsupportedFieldOf: the personGeneration phrase is
\* looked for first.
getUnsupportedFieldOf_PhraseFirst(message) ==
  IF personGenerationMatch(message) THEN Name(<<"p", "e", "r", "s", "o", "n", "G", "e", "n", "e", "r", "a", "t", "i", "o", "n">>)
  ELSE IF backtickMatch(message, 1).matched THEN backtickMatch(message, 1)
  ELSE genericMatch(message, 1)

\* getUnsupportedField(message) on the text of the message.
getUnsupportedFieldOf(message) ==
  IF backtickMatch(message, 1).matched THEN backtickMatch(message, 1)
  ELSE IF personGenerationMatch(message) THEN Name(<<"p", "e", "r", "s", "o", "n", "G", "e", "n", "e", "r", "a", "t", "i", "o", "n">>)
  ELSE genericMatch(message, 1)

\* The messages getUnsupportedField is explored on: up to MaxPieces of these
\* pieces, one after the other.
Pieces ==
  {<<Grave>>,
   <<Grave, "s", "e", "e", "d", Grave>>,
   <<"r", "e", "s", "o", "l", "u", "t", "i", "o", "n">>,
   <<"i", "s", "n", "'", "t", " ", "s", "u", "p", "p", "o", "r", "t", "e", "d">>,
   <<" ", "i", "s", "n", "'", "t", " ", "s", "u", "p", "p", "o", "r", "t", "e", "d">>,
   <<" ">>,
   <<"f", "o", "r", " ", "p", "e", "r", "s", "o", "n", "G", "e", "n", "e", "r", "a", "t", "i", "o", "n">>,
   <<" ", "i", "s", " ", "c", "u", "r", "r", "e", "n", "t", "l", "y", " ", "n", "o", "t", " ", "s", "u", "p", "p", "o", "r", "t", "e", "d">>,
   <<"n", "o", "t", " ", "s", "u", "p", "p", "o", "r", "t", "e", "d">>,
   <<"\n">>}
Messages == {Concat(pieces) : pieces \in UNION {[1..n -> Pieces] : n \in 0..MaxPieces}}

InitUnsupported ==
  /\ AtRest
  /\ ui = NoReader
  /\ env = DefaultEnv
  /\ call \in {[fn |-> "getUnsupportedField", message |-> m, returned |-> FALSE,
                 result |-> Null] : m \in Messages}

GetUnsupportedField ==
  /\ call.fn = "getUnsupportedField"
  /\ ~call.returned
  /\ call' = [call EXCEPT !.returned = TRUE,
                          !.result = getUnsupportedFieldOf(call.message)]
  /\ UNCHANGED <<ui, env, now, veoCooldownUntil, veoInFlight, veoQueue, req, faults,
                 pending, nextTicket, arrivals, aborts>>

NextUnsupported == GetUnsupportedField

UnsupportedSpec == InitUnsupported /\ [][NextUnsupported]_vars

\* ---------------------------------------------------- stableSeedFromString
\* A 32-bit integer is held as its two 16-bit halves, so that no product
\* leaves the range of the integers.
Word(hi, lo) == [hi |-> hi, lo |-> lo]

\* 2166136261 and 16777619
offsetBasis == Word(33052, 40389)
prime == Word(256, 403)

\* a ^ b on n bits
RECURSIVE Xor(_, _, _)
Xor(a, b, n) ==
  IF n = 0 THEN 0
  ELSE (((a % 2) + (b % 2)) % 2) + 2 * Xor(a \div 2, b \div 2, n - 1)

\* hash ^ code, for a char code (16 bits)
XorCode(hash, code) == Word(hash.hi, Xor(hash.lo, code, 16))

\* Math.imul(a, b): the low 32 bits of the product
imul(a, b) ==
  LET low == a.lo * b.lo IN
  Word((low \div 65536 + a.hi * b.lo + a.lo * b.hi) % 65536, low % 65536)

\* (hash >>> 0) % 2147483647: 2^31 leaves the remainder 1
Reduce(hash) ==
  LET rest == (hash.hi % 32768) * 65536 + hash.lo
      top == hash.hi \div 32768
  IN ((IF rest = 2147483647 THEN 0 ELSE rest) + top) % 2147483647

\* The loop over the char codes of the input, from the i-th on.
RECURSIVE HashFrom(_, _, _)
HashFrom(input, i, hash) ==
  IF i > Len(input) THEN hash
  ELSE HashFrom(input, i + 1, imul(XorCode(hash, input[i]), prime))

\* Faulty variant of stableSeedFromString: a zero is returned as it is.
stableSeedFromString_KeepZero(input) == Reduce(HashFrom(input, 1, offsetBasis))

stableSeedFromString(input) ==
  LET seed == Reduce(HashFrom(input, 1, offsetBasis)) IN
  IF seed = 0 THEN 1 ELSE seed

\* The inputs stableSeedFromString is explored on: up to MaxChars of these
\* char codes (a, |, and two pairs whose hash is a multiple of 2147483647).
CharCodes == {97, 124, 18639, 58843, 61328, 36101}
SeedInputs == UNION {[1..n -> CharCodes] : n \in 0..MaxChars}

\* stableSeedFromString on its own: the seed of an input is computed, and
\* then once more.
InitSeed ==
  /\ AtRest
  /\ ui = NoReader
  /\ env = DefaultEnv
  /\ call \in {[fn |-> "stableSeedFromString", input |-> input, calls |-> 0,
                 previous |-> 0, seed |-> 0] : input \in SeedInputs}

StableSeed ==
  /\ call.fn = "stableSeedFromString"
  /\ call.calls < 2
  /\ call' = [call EXCEPT !.calls = @ + 1, !.previous = call.seed,
                          !.seed = stableSeedFromString(call.input)]
  /\ UNCHANGED <<ui, env, now, veoCooldownUntil, veoInFlight, veoQueue, req, faults,
                 pending, nextTicket, arrivals, aborts>>

NextSeed == StableSeed

SeedSpec == InitSeed /\ [][NextSeed]_vars

\* ------------------------------------------------------- the browser reader
\* MangaReader: the generation queue of the page in the browser.  One step
\* is one task of the page: an event handler, an effect, or the
\* continuation of generateForPage after an await, each with every call it
\* makes.  A generateVideo call is "pending" until its answer arrives,
\* "aborted" once its controller was aborted and until the rejection is
\* delivered, "caching" while generateForPage awaits setVideo, and
\* "settled" after the .finally of pumpQueue has run.  setVideo fetches the
\* video and stores it, and swallows its own errors; stage, progress and
\* the timers only drive the display and are left out.

NumPages == 2
MaxEnqueues == 4

Pages == 0 .. NumPages - 1

NoVideo == 0
NoError == "null"
NoAbortRef == [pageIndex |-> -1, controller |-> 0]

\* useState(pages.map(...)) and the reset effect on [pages, clearCache].
InitPageState == [status |-> "idle", videoUrl |-> NoVideo, error |-> NoError,
                  generationId |-> 0]

Mounted ==
  [mounted |-> TRUE,
   queueRef |-> <<>>,
   generatingRef |-> FALSE,
   abortRef |-> NoAbortRef,
   generationCountersRef |-> [p \in Pages |-> 0],
   pageStates |-> [p \in Pages |-> InitPageState],
   promptBusy |-> FALSE,
   promptOpen |-> FALSE,
   promptOverlays |-> {},
   autoMode |-> NumPages > 0,
   autoSkipped |-> FALSE,
   didAutoEnqueueRef |-> FALSE,
   calls |-> <<>>,          \* the generateVideo calls so far, by controller
   enqueues |-> 0]          \* history: generation ids handed out so far

isProcessing(state) == state.status \in {"queued", "generating"}

WithoutPage(queue, pageIndex) ==
  SelectSeq(queue, LAMBDA item : item.pageIndex # pageIndex)

\* controller.abort(): a request still in flight is rejected with an
\* AbortError; one that has answered is not affected.
abort(u, controller) ==
  IF u.calls[controller].phase = "pending"
  THEN [u EXCEPT !.calls[controller].phase = "aborted"]
  ELSE u

\* generateForPage up to its first await.
generateForPage(u, next) ==
  LET controller == Len(u.calls) + 1 IN
  [u EXCEPT !.pageStates[next.pageIndex].status = "generating",
            !.pageStates[next.pageIndex].error = NoError,
            !.abortRef = [pageIndex |-> next.pageIndex, controller |-> controller],
            !.calls = Append(@, [pageIndex |-> next.pageIndex,
                                 generationId |-> next.generationId,
                                 source |-> next.source,
                                 phase |-> "pending"])]

pumpQueue(u) ==
  IF u.generatingRef THEN u
  ELSE IF u.queueRef = <<>> THEN u
  ELSE LET next == Head(u.queueRef) IN
       generateForPage([u EXCEPT !.queueRef = Tail(@),
                                 !.generatingRef = TRUE,
                                 !.promptBusy = IF next.source = "prompt" THEN TRUE ELSE @],
                       next)

\* The .finally of pumpQueue for the call of this controller.
Finally(u, controller) ==
  LET next == u.calls[controller]
      cleared == IF next.source = "prompt"
                 THEN [u EXCEPT !.promptBusy = FALSE, !.promptOpen = FALSE,
                                !.promptOverlays = @ \ {next.pageIndex}]
                 ELSE u
  IN pumpQueue([cleared EXCEPT !.generatingRef = FALSE,
                               !.calls[controller].phase = "settled"])

ClearAbortRef(u, pageIndex) ==
  IF u.abortRef.pageIndex = pageIndex THEN [u EXCEPT !.abortRef = NoAbortRef] ELSE u

stopAllGeneration(u) ==
  LET aborted == IF u.abortRef # NoAbortRef THEN abort(u, u.abortRef.controller) ELSE u IN
  [aborted EXCEPT !.queueRef = <<>>,
                  !.generatingRef = FALSE,
                  !.abortRef = NoAbortRef,
                  !.promptBusy = FALSE,
                  !.promptOpen = FALSE,
                  !.promptOverlays = {},
                  !.pageStates = [p \in Pages |->
                                    IF isProcessing(@[p])
                                    THEN [@[p] EXCEPT !.status = "idle", !.error = NoError]
                                    ELSE @[p]]]

cancelGeneration(u, pageIndex) ==
  LET filtered == [u EXCEPT !.queueRef = WithoutPage(@, pageIndex)] IN
  IF filtered.abortRef.pageIndex = pageIndex
  THEN abort(filtered, filtered.abortRef.controller)
  ELSE [filtered EXCEPT !.pageStates[pageIndex].status = "idle",
                        !.pageStates[pageIndex].error = NoError]

\* enqueuePage; seen is what the last render gave the callback: the states
\* pageStatesRef holds and the prompt flags of its closure.
enqueuePage(u, seen, pageIndex, userPrompt, force, source) ==
  LET state == seen.pageStates[pageIndex]
      alreadyQueued == \E i \in 1 .. Len(u.queueRef) : u.queueRef[i].pageIndex = pageIndex
      shouldOverride == force \/ userPrompt
      unqueued == IF force /\ alreadyQueued
                  THEN [u EXCEPT !.queueRef = WithoutPage(@, pageIndex)]
                  ELSE u
      cancelled == IF shouldOverride /\ isProcessing(state)
                   THEN cancelGeneration(unqueued, pageIndex)
                   ELSE unqueued
      nextGenerationId == cancelled.generationCountersRef[pageIndex] + 1
  IN
  IF pageIndex \notin Pages THEN u
  ELSE IF seen.autoSkipped /\ source = "auto" THEN u
  ELSE IF source = "auto" /\ (seen.promptBusy \/ seen.promptOpen
                              \/ pageIndex \in seen.promptOverlays) THEN u
  ELSE IF ~force /\ isProcessing(state) THEN u
  ELSE IF ~force /\ state.status = "ready" /\ ~userPrompt THEN u
  ELSE pumpQueue(
         [cancelled EXCEPT
            !.generationCountersRef[pageIndex] = nextGenerationId,
            !.enqueues = @ + 1,
            !.pageStates[pageIndex] =
               [status |-> "queued", error |-> NoError,
                generationId |-> nextGenerationId,
                videoUrl |-> IF shouldOverride THEN NoVideo ELSE @.videoUrl],
            !.queueRef = Append(@, [pageIndex |-> pageIndex, userPrompt |-> userPrompt,
                                    source |-> source,
                                    generationId |-> nextGenerationId])])

\* pages.forEach((_, idx) => enqueuePage(idx, { source: 'auto' }))
RECURSIVE EnqueueFrom(_, _, _)
EnqueueFrom(u, seen, idx) ==
  IF idx \notin Pages THEN u
  ELSE EnqueueFrom(enqueuePage(u, seen, idx, FALSE, FALSE, "auto"), seen, idx + 1)

\* The effect on [autoMode, pageStates, pages.length], which runs with the
\* render that follows every task.
Render(u) ==
  IF u.autoMode /\ \A p \in Pages : u.pageStates[p].status \in {"ready", "failed"}
  THEN [u EXCEPT !.autoMode = FALSE]
  ELSE u

\* The effect on [pages, enqueuePage, autoMode] has not run yet.
EffectPending == ui.autoMode /\ ~ui.didAutoEnqueueRef

\* The rejection of an aborted fetch is delivered before the next task.
Idle == ~EffectPending /\ \A c \in 1 .. Len(ui.calls) : ui.calls[c].phase # "aborted"

\* Every call comes from an entry of the queue, so from an enqueuePage.
Controllers == 1 .. MaxEnqueues
Started(controller) == controller <= Len(ui.calls)

server == <<env, now, veoCooldownUntil, veoInFlight, veoQueue, req, faults,
            pending, nextTicket, arrivals, aborts, call>>

AutoEnqueue ==
  /\ EffectPending
  /\ ui' = Render(EnqueueFrom([ui EXCEPT !.didAutoEnqueueRef = TRUE, !.queueRef = <<>>],
                              ui, 0))
  /\ UNCHANGED server

\* The k key and the generate button of the quick bar.
PressGenerate(pageIndex) ==
  /\ Idle
  /\ ui.enqueues < MaxEnqueues
  /\ ui' = Render(IF isProcessing(ui.pageStates[pageIndex])
                  THEN cancelGeneration(ui, pageIndex)
                  ELSE enqueuePage(ui, ui, pageIndex, FALSE, TRUE, "none"))
  /\ UNCHANGED server

\* The h key.
TogglePrompt(pageIndex) ==
  /\ Idle
  /\ pageIndex \notin ui.promptOverlays
  /\ ui' = [ui EXCEPT !.promptOpen = ~@]
  /\ UNCHANGED server

handlePromptSubmit(pageIndex, text) ==
  /\ Idle
  /\ ui.promptOpen
  /\ ui.enqueues < MaxEnqueues
  /\ ui' = Render(
       IF ~text THEN [ui EXCEPT !.promptOpen = FALSE]
       ELSE IF pageIndex \in ui.promptOverlays THEN ui
       ELSE LET stopped == [stopAllGeneration(ui) EXCEPT !.autoMode = FALSE,
                                                         !.autoSkipped = TRUE]
                queued == enqueuePage(stopped, ui, pageIndex, TRUE, TRUE, "prompt")
            IN [queued EXCEPT !.promptBusy = TRUE, !.promptOpen = FALSE,
                              !.promptOverlays = @ \cup {pageIndex}])
  /\ UNCHANGED server

\* handleCancelAuto, and handleSkipAuto, which only shows the videos as well.
handleCancelAuto ==
  /\ Idle
  /\ ui.autoMode
  /\ ui' = Render([stopAllGeneration(ui) EXCEPT !.autoMode = FALSE, !.autoSkipped = TRUE])
  /\ UNCHANGED server

Superseded(u, controller) ==
  u.generationCountersRef[u.calls[controller].pageIndex] # u.calls[controller].generationId

\* generateVideo answers with a video: generateForPage up to await setVideo,
\* or to its end when the generation has been superseded.
Resolve(controller) ==
  /\ Idle
  /\ Started(controller)
  /\ ui.calls[controller].phase = "pending"
  /\ ui' = Render(IF Superseded(ui, controller)
                  THEN Finally(ui, controller)
                  ELSE [ui EXCEPT !.calls[controller].phase = "caching"])
  /\ UNCHANGED server

\* setVideo returns: the rest of the try block, then the .finally.
SetVideoDone(controller) ==
  /\ Idle
  /\ Started(controller)
  /\ ui.calls[controller].phase = "caching"
  /\ LET next == ui.calls[controller]
         ready == [ui EXCEPT !.pageStates[next.pageIndex].status = "ready",
                             !.pageStates[next.pageIndex].videoUrl = controller,
                             !.pageStates[next.pageIndex].generationId = next.generationId]
     IN ui' = Render(Finally(ClearAbortRef(ready, next.pageIndex), controller))
  /\ UNCHANGED server

\* The catch block of generateForPage, then the .finally.
Catch(controller, status, error) ==
  LET next == ui.calls[controller]
      updated == [ui EXCEPT !.pageStates[next.pageIndex].status = status,
                            !.pageStates[next.pageIndex].error = error,
                            !.pageStates[next.pageIndex].generationId = next.generationId]
  IN ui' = Render(IF Superseded(ui, controller)
                  THEN Finally(ui, controller)
                  ELSE Finally(ClearAbortRef(updated, next.pageIndex), controller))

\* generateVideo rejects with an error of the server or of the network.
Reject(controller) ==
  /\ Idle
  /\ Started(controller)
  /\ ui.calls[controller].phase = "pending"
  /\ Catch(controller, "failed", "error.message")
  /\ UNCHANGED server

\* generateVideo rejects with the AbortError of its signal.
AbortDelivered(controller) ==
  /\ ~EffectPending
  /\ Started(controller)
  /\ ui.calls[controller].phase = "aborted"
  /\ Catch(controller, "idle", NoError)
  /\ UNCHANGED server

InitReader ==
  /\ AtRest
  /\ env = DefaultEnv
  /\ call = NoCall
  /\ ui = Mounted

NextReader ==
  \/ AutoEnqueue
  \/ \E pageIndex \in Pages : PressGenerate(pageIndex)
  \/ \E pageIndex \in Pages : TogglePrompt(pageIndex)
  \/ \E pageIndex \in Pages, text \in BOOLEAN : handlePromptSubmit(pageIndex, text)
  \/ handleCancelAuto
  \/ \E controller \in Controllers : Resolve(controller)
  \/ \E controller \in Controllers : SetVideoDone(controller)
  \/ \E controller \in Controllers : Reject(controller)
  \/ \E controller \in Controllers : AbortDelivered(controller)

ReaderSpec == InitReader /\ [][NextReader]_vars

\* ------------------------------------------------------------------ claims
\* The slot of request r is granted in this step (veoInFlight += 1 ran for it).
GrantedNow(r) == req'[r].granted > req[r].granted

\* C1: with VEO_MAX_CONCURRENT = maxSlots >= 1 the in-flight counter stays
\* within 0..maxSlots in every reachable state, cooldowns included.
C1_InFlightWithinSlots ==
  env.VEO_MAX_CONCURRENT >= 1 =>
    (veoInFlight >= 0 /\ veoInFlight <= env.VEO_MAX_CONCURRENT)

\* C2: requests that queued while the gate was full are granted their slots
\* in the order in which they queued (the wait queue is served oldest first).
C2_QueueServedInOrder ==
  [][\A a, b \in Requests :
       (req[a].ticket > 0 /\ req[a].ticket < req[b].ticket /\ GrantedNow(b))
         => req[a].granted > 0]_vars

\* C3: no request is granted a slot while a request that called
\* acquireVeoSlot earlier is still waiting in it and is not canceled.
C3_NoOvertaking ==
  [][\A a, b \in Requests :
       (a < b /\ GrantedNow(b)) => ~(Waiting(req[a]) /\ ~req[a].requestCanceled)]_vars

\* C4: a request that acquired a slot has called releaseVeoSlot when its
\* handler has finished, whatever its outcome, and no slot stays taken once
\* every handler has finished.
C4_SlotReleased ==
  /\ \A r \in Requests :
       (req[r].pc = "done" /\ req[r].granted > 0) => req[r].released = req[r].granted
  /\ (\A r \in Requests : req[r].pc \in {"idle", "done"}) => veoInFlight = 0

\* C4 witness: a request canceled during polling has finished and released.
C4_Witness ==
  \E r \in Requests :
    /\ req[r].pc = "done" /\ req[r].outcome = "canceled"
    /\ req[r].pendingSeen > 0 /\ req[r].granted = 1 /\ req[r].released = 1
    /\ veoInFlight = 0

\* The inputs that validation has to reject, in the words of the claim.
RejectedInput(rec) ==
  \/ env.VEO_REQUIRE_IMAGE /\ (~rec.imageData \/ ~rec.mimeType)
  \/ env.VEO_REQUIRE_IMAGE /\ ~env.VEO_INCLUDE_IMAGE
  \/ ~env.GEMINI_API_KEY

\* C5: the step in which a request with an input that validation rejects
\* arrives ends with its 400/500 response and leaves veoInFlight, the wait
\* queue and the cooldown deadline as they were; the request never calls
\* acquireVeoSlot and makes no upstream call.
C5_RejectionTouchesNothing ==
  [][\A r \in Requests :
       (req[r].pc = "idle" /\ req'[r].pc # "idle" /\ RejectedInput(req'[r]))
         => /\ req'[r].pc = "done"
            /\ req'[r].status \in {400, 500}
            /\ req'[r].granted = 0 /\ req'[r].ticket = 0 /\ ~req'[r].called
            /\ veoInFlight' = veoInFlight
            /\ veoQueue' = veoQueue
            /\ veoCooldownUntil' = veoCooldownUntil]_vars

\* C5 witness: a request was rejected while another one holds the slot and a
\* cooldown is armed.
C5_Witness ==
  \E r \in Requests :
    /\ RejectedInput(req[r]) /\ req[r].pc = "done" /\ req[r].status = 400
    /\ veoInFlight = 1 /\ veoCooldownUntil > now

\* C6: a request whose client disconnected while it waited in acquireVeoSlot
\* makes no upstream call, and ends canceled.
C6_CanceledWhileQueued ==
  \A r \in Requests :
    req[r].canceledWaiting =>
      /\ ~req[r].called
      /\ Waiting(req[r]) \/ req[r].pc = "acquired"
           \/ (req[r].pc = "done" /\ req[r].outcome = "canceled")

\* C6 witness: a request that queued and was canceled in the queue was woken
\* and has finished.
C6_Witness ==
  \E r \in Requests :
    /\ req[r].canceledWaiting /\ req[r].ticket > 0
    /\ req[r].pc = "done" /\ req[r].outcome = "canceled"

\* C7: veoInFlight is never incremented for a request whose cancellation
\* flag is already set.
C7_CanceledWaiterSkipped ==
  [][\A r \in Requests : GrantedNow(r) => ~req[r].requestCanceled]_vars

\* C8: a request whose cancellation flag is set issues no new upstream call.
C8_NoCallAfterCancel == \A r \in Requests : ~req[r].calledAfterCancel

\* The request is inside a status check of the poller.
InStatusCheck(rec) == rec.pc \in {"fetch", "vfetch"} /\ rec.ctx \in {"poll", "vertexPoll"}

\* C9: once the cancellation flag is set the poller issues no further status
\* check; the check that is answered "pending" under a set flag, and the
\* slice of the inter-poll sleep that ends under a set flag, end the poller
\* with 'Request canceled by client' (after the last check: with its
\* time-out), and the request canceled.
C9_PollerObservesCancel ==
  [][\A r \in Requests :
       /\ req[r].requestCanceled => req'[r].checks = req[r].checks
       /\ (req[r].requestCanceled /\ InStatusCheck(req[r])
             /\ req'[r].pendingSeen > req[r].pendingSeen)
            => /\ req'[r].pc = "done" /\ req'[r].outcome = "canceled"
               /\ req'[r].lastError = CanceledError
       /\ (req[r].requestCanceled /\ req[r].pc = "pollSleep"
             /\ (req'[r].pc # "pollSleep" \/ req'[r].elapsed # req[r].elapsed))
            => /\ req'[r].pc = "done" /\ req'[r].outcome = "canceled"
               /\ \/ req'[r].lastError = CanceledError
                  \/ req[r].i = maxPolls - 1 /\ req'[r].lastError = TimeoutError]_vars

\* C9 witness: a request canceled in the middle of an inter-poll sleep, after
\* several status checks, has ended with the cancellation error.
C9_Witness ==
  \E r \in Requests :
    /\ req[r].pc = "done" /\ req[r].outcome = "canceled"
    /\ req[r].lastError = CanceledError
    /\ req[r].checks = 3 /\ req[r].pendingSeen = 3
    /\ req[r].elapsed = 2 * step

\* C10: the poller returns the result of the operation after exactly k+1
\* status checks when the first k < maxPolls checks were answered done=false,
\* and it does not give up before maxPolls checks were answered done=false.
C10_ResultAfterKPlusOneChecks ==
  \A r \in Requests :
    /\ req[r].result = "doneUri" =>
         /\ req[r].pc = "done" /\ req[r].outcome = "ready"
         /\ req[r].pendingSeen < maxPolls
         /\ req[r].checks = req[r].pendingSeen + 1
    /\ req[r].lastError = TimeoutError => req[r].pendingSeen = maxPolls

\* C10 witness: the result is returned by the last status check the poller
\* allows (k = maxPolls - 1).
C10_Witness ==
  \E r \in Requests :
    /\ req[r].outcome = "ready" /\ req[r].result = "doneUri"
    /\ req[r].pendingSeen = maxPolls - 1 /\ req[r].checks = maxPolls


\* C11: the poller never makes more than maxPolls status checks; the time-out
\* is raised after exactly maxPolls checks that were all answered done=false,
\* it ends the request, and unless the client is gone it is answered 500 /
\* failed, never ready.
C11_TimeoutAfterMaxPolls ==
  \A r \in Requests :
    /\ req[r].checks <= maxPolls
    /\ req[r].pendingSeen = maxPolls => req[r].pc \in {"pollSleep", "done"}
    /\ req[r].lastError = TimeoutError =>
         /\ req[r].pc = "done"
         /\ req[r].checks = maxPolls /\ req[r].pendingSeen = maxPolls
         /\ req[r].outcome # "ready"
         /\ ~req[r].requestCanceled => (req[r].status = 500 /\ req[r].outcome = "failed")

\* C11 witness: a request whose operation never reported done has been
\* answered 500 after maxPolls status checks.
C11_Witness ==
  \E r \in Requests :
    /\ req[r].pc = "done" /\ req[r].lastError = TimeoutError
    /\ req[r].checks = maxPolls /\ req[r].status = 500 /\ req[r].outcome = "failed"
    /\ ~req[r].requestCanceled


\* C12: a request whose client aborted while it was being processed is never
\* sent an HTTP response.
C12_NoResponseAfterAbort ==
  \A r \in Requests :
    (req[r].requestCanceled /\ req[r].pc = "done") => req[r].status = 0


\* fetchWithRetry raises in this step of request r.
RaisedNow(r) == req'[r].throws > req[r].throws

\* C13: fetchWithRetry never makes more than maxRetries attempts; when every
\* attempt of a call was answered 429 it raises the rate-limit error after
\* exactly maxRetries attempts; veoCooldownUntil never decreases meanwhile.
C13_RetryBudgetOn429 ==
  [][/\ veoCooldownUntil' >= veoCooldownUntil
     /\ \A r \in Requests :
          /\ req'[r].fetches <= maxRetries
          /\ (RaisedNow(r) /\ req'[r].raised429 = req'[r].raisedFetches)
               => /\ req'[r].raisedFetches = maxRetries
                  /\ req'[r].raised = {"429"}]_vars

\* C13 witness: the start call was answered 429 maxRetries times, without a
\* Retry-After header, and raised; the request was answered 429.
C13_Witness ==
  \E r \in Requests :
    /\ req[r].throws = 1 /\ req[r].raised = {"429"}
    /\ req[r].raisedFetches = maxRetries /\ req[r].raised429 = maxRetries
    /\ req[r].status = 429
    /\ veoCooldownUntil = 7000

\* The largest element of a non-empty set of numbers.
SetMax(S) == CHOOSE x \in S : \A y \in S : y <= x

C15_NoGrantDuringCooldown ==
  [][\A r \in Requests : GrantedNow(r) => now >= veoCooldownUntil]_vars


\* An attempt of a fetchWithRetry call of request r is answered in this step.
AnsweredNow(r) == req'[r].answers > req[r].answers

\* C16: an attempt answered 400, 401 or 403 is the last one of its call: the
\* error carrying that status is raised in the same step, without a backoff
\* sleep, and veoCooldownUntil is left as it was.
C16_CallerFaultNotRetried ==
  [][\A r \in Requests :
       (AnsweredNow(r) /\ req'[r].lastStatus \in {400, 401, 403})
         => /\ RaisedNow(r)
            /\ StatusText(req'[r].lastStatus) \in req'[r].raised
            /\ req'[r].raisedFetches = req[r].fetches
            /\ req'[r].pc \notin {"backoff", "sleep429"}
            /\ veoCooldownUntil' = veoCooldownUntil]_vars

\* C16 witness: the first attempt of the start call was answered 401 and the
\* request has failed at once.
C16_Witness ==
  \E r \in Requests :
    /\ req[r].lastStatus = 401 /\ req[r].throws = 1 /\ req[r].raisedFetches = 1
    /\ "401" \in req[r].raised
    /\ req[r].pc = "done" /\ req[r].status = 500
    /\ now = 0 /\ veoCooldownUntil = 0

\* C17: an attempt that fails with another status than 429, 400, 401, 403, or
\* with an exception of fetch, is followed by a backoff sleep and another
\* attempt as long as fewer than maxRetries attempts were made, and raises
\* only then, whatever the body or the text of the exception contains.
C17_OtherFailuresRetried ==
  [][\A r \in Requests :
       (AnsweredNow(r) /\ req'[r].lastStatus \notin {200, 429, 400, 401, 403})
         => IF req[r].fetches < maxRetries
            THEN req'[r].pc = "backoff" /\ ~RaisedNow(r)
            ELSE RaisedNow(r)]_vars

\* C18: an attempt answered 2xx with a body that is not JSON is followed by a
\* backoff sleep and another attempt as long as fewer than maxRetries
\* attempts were made.
C18_MalformedJsonRetried ==
  [][\A r \in Requests :
       (AnsweredNow(r) /\ req'[r].lastStatus = 200 /\ req'[r].lastBody = "badJson"
          /\ req[r].fetches < maxRetries)
         => req'[r].pc = "backoff"]_vars


\* C19: the start call issued by the catch block never carries the body that
\* was rejected.
C19_RetryBodyDiffers ==
  \A r \in Requests :
    req[r].ctx = "startRetry" => req[r].requestBody # req[r].rejectedBody

\* C20: a request makes at most two start calls beyond the first and changes
\* the image mode at most once.
C20_StartCallsBounded ==
  \A r \in Requests : req[r].startCalls <= 1 + 2 /\ req[r].modeSwitches <= 1

\* C20 witness: a request has ended after its start call was rejected, sent
\* again in the other image mode and rejected again.
C20_Witness ==
  \E r \in Requests :
    /\ req[r].pc = "done" /\ req[r].outcome = "failed"
    /\ req[r].startCalls = 2 /\ req[r].modeSwitches = 1
    /\ req[r].triedAlternateImageMode /\ req[r].throws >= 2


\* The configured mode is reference and an image is required.
ReferenceRequired == env.VEO_GEMINI_IMAGE_MODE = "reference" /\ env.VEO_REQUIRE_IMAGE

\* C21: in reference mode with a required image, a first start call rejected
\* with "`referenceImages` isn't supported" is followed at once by the second
\* and last start call, whose body is the rejected one with the image moved
\* from referenceImages to the instance; when that call is answered with an
\* operation name the first status check follows, and when a status check is
\* answered done with a URI the request ends with 200 ready.
C21_ReferenceFallsBackToFirstFrame ==
  [][ReferenceRequired =>
       \A r \in Requests :
         /\ (RaisedNow(r) /\ req[r].ctx = "start"
               /\ Backtick("referenceImages") \in req'[r].raised)
              => /\ req'[r].pc = "fetch" /\ req'[r].ctx = "startRetry"
                 /\ req'[r].imageMode = "first_frame"
                 /\ req'[r].rejectedBody = req[r].requestBody
                 /\ "referenceImages" \in req[r].requestBody
                 /\ req'[r].requestBody
                      = (req[r].requestBody \ {"referenceImages"}) \cup {"image"}
                 /\ req'[r].startCalls = 2
         /\ (AnsweredNow(r) /\ req[r].ctx = "startRetry" /\ req'[r].lastBody = "name")
              => /\ req'[r].pc = "fetch" /\ req'[r].ctx = "poll"
                 /\ req'[r].checks = 1 /\ req'[r].startCalls = 2
         /\ (AnsweredNow(r) /\ req[r].ctx = "poll" /\ req'[r].lastBody = "doneUri")
              => /\ req'[r].pc = "done" /\ req'[r].status = 200
                 /\ req'[r].outcome = "ready"]_vars

\* C21 witness: such a request has ended with 200 ready after two start calls,
\* the first rejected for referenceImages, the second carrying the image on
\* the instance.
C21_Witness ==
  \E r \in Requests :
    /\ ReferenceRequired
    /\ req[r].pc = "done" /\ req[r].status = 200 /\ req[r].outcome = "ready"
    /\ req[r].startCalls = 2 /\ req[r].modeSwitches = 1
    /\ Backtick("referenceImages") \in req[r].raised
    /\ "referenceImages" \in req[r].rejectedBody
    /\ "image" \in req[r].requestBody /\ "referenceImages" \notin req[r].requestBody
    /\ req[r].checks = 1


\* The errors with which the catch block around the start call gives up.
RecoveryErrors ==
  {"referenceImages is not supported by this model",
   "the Gemini API rejected both image modes",
   "the Gemini API rejected the image payload"}

\* The request ended on an unsupported-field or unsupported-image rejection
\* that the catch block around the start call did not or could not recover.
RecoveryExhausted(rec) ==
  /\ rec.pc = "done" /\ ~rec.requestCanceled
  /\ \/ rec.lastError \cap RecoveryErrors # {}
     \/ /\ rec.ctx = "startRetry"
        /\ \/ getUnsupportedField(rec.lastError) # "null"
           \/ isUnsupportedImageError(rec.lastError)

\* C22: a request that ends because the recovery from an unsupported-field or
\* unsupported-image rejection is exhausted or not permitted is answered 400.
C22_ExhaustedRecoveryIs400 ==
  \A r \in Requests : RecoveryExhausted(req[r]) => req[r].status = 400


\* C23: when a start call or a status check of a request whose client is
\* still connected raises after maxRetries attempts that were all answered
\* 429, the request ends in the same step with 429 and status "rate_limited".
C23_Exhausted429IsRateLimited ==
  [][\A r \in Requests :
       (RaisedNow(r) /\ req[r].ctx \in {"start", "startRetry", "poll"}
          /\ req'[r].raised429 = maxRetries /\ req'[r].raisedFetches = maxRetries
          /\ ~req[r].requestCanceled)
         => /\ req'[r].pc = "done"
            /\ req'[r].status = 429
            /\ req'[r].outcome = "rate_limited"]_vars

\* C23 witness: a status check was answered 429 maxRetries times and the
\* request has ended with 429.
C23_Witness ==
  \E r \in Requests :
    /\ req[r].pc = "done" /\ req[r].ctx = "poll" /\ ~req[r].requestCanceled
    /\ req[r].raised429 = maxRetries /\ req[r].raisedFetches = maxRetries
    /\ req[r].raised = {"429"}
    /\ req[r].status = 429 /\ req[r].outcome = "rate_limited"

\* C29: when a call of buildPromptFromImage raises, the prompt is the fallback
\* of that call and, unless the client has disconnected, the first start call
\* is issued in the same step; no response is sent.
C29_PromptFailureNotFatal ==
  [][\A r \in Requests :
       (RaisedNow(r) /\ req[r].ctx \in {"analysis", "analysisMinimal", "promptBuild"})
         => /\ req'[r].prompt = FallbackPrompt(req[r].ctx)
            /\ req'[r].status = 0
            /\ IF req[r].requestCanceled
               THEN req'[r].pc = "done" /\ req'[r].outcome = "canceled"
               ELSE /\ req'[r].pc = "fetch" /\ req'[r].ctx = "start"
                    /\ req'[r].startCalls = 1]_vars

\* C29 witness: a call of the full prompt builder has raised after maxRetries
\* attempts and the request went on to a video.
C29_Witness ==
  \E r \in Requests :
    /\ req[r].throws = 1 /\ req[r].raisedFetches = maxRetries
    /\ req[r].prompt = "ultraShort" /\ ~env.VEO_MINIMAL_PROMPT
    /\ req[r].answers > maxRetries
    /\ req[r].pc = "done" /\ req[r].status = 200 /\ req[r].outcome = "ready"


\* C24: a status check answered done with an error ends the request in the
\* same step, with no further start call or status check; unless the client
\* has disconnected the response is 500 with status "failed" and the error is
\* the upstream's message.
C24_DoneErrorIs500 ==
  [][\A r \in Requests :
       (AnsweredNow(r) /\ req[r].ctx = "poll"
          /\ req'[r].lastBody \in {"doneError", "doneErrorCode"})
         => /\ req'[r].pc = "done"
            /\ req'[r].startCalls = req[r].startCalls
            /\ req'[r].checks = req[r].checks
            /\ ~req[r].requestCanceled
                 => /\ req'[r].status = 500
                    /\ req'[r].outcome = "failed"
                    /\ req'[r].lastError = OperationError(req'[r].lastBody)]_vars


\* C30: with VEO_MAX_CONCURRENT below 1, veoInFlight stays 0 and veoQueue
\* empty, no request waits inside acquireVeoSlot, and a request that arrives
\* is past acquireVeoSlot in the same step, cooldown or not.
C30_DisabledLimitingIsNoOp ==
  [][env.VEO_MAX_CONCURRENT < 1 =>
       /\ veoInFlight' = 0 /\ veoQueue' = <<>> /\ nextTicket' = 0
       /\ \A r \in Requests :
            /\ ~Waiting(req'[r])
            /\ req'[r].granted = 0
            /\ (req[r].pc = "idle" /\ req'[r].pc # "idle") => req'[r].pc = "acquired"]_vars

\* C30 witness: with limiting disabled and a cooldown running, one request
\* has returned through releaseVeoSlot, one is calling the upstream and one
\* has just come out of acquireVeoSlot.
C30_Witness ==
  /\ env.VEO_MAX_CONCURRENT < 1
  /\ veoCooldownUntil > now
  /\ veoInFlight = 0 /\ veoQueue = <<>>
  /\ \E a, b, c \in Requests :
       /\ req[a].pc = "done" /\ req[a].released = 1
       /\ req[b].pc \in {"fetch", "sleep429"}
       /\ req[c].pc = "acquired"


\* The bodies built so far by the call of buildVeoRequestBody.
Built == IF call.fn = "buildVeoRequestBody" THEN 1..Len(call.bodies) ELSE {}

\* The arguments of the call hold an image that is to be included.
ImagePresent ==
  /\ call.args.includeImage # "false"
  /\ call.args.imageData # ""
  /\ call.args.mimeType # ""

OnInstance(body) == "image" \in DOMAIN body.instances[1]
InReferences(body) == "referenceImages" \in DOMAIN body.parameters
TheImage == [imageBytes |-> call.args.imageData, mimeType |-> call.args.mimeType]

\* C25: with an image present, a body built in first_frame mode (or in the
\* default mode) has the image on the instance and no referenceImages, a body
\* built in reference mode has it as the only entry of referenceImages and
\* not on the instance, and two bodies built from the same arguments in the
\* same mode are equal, whatever was built in between.
C25_ImagePlacementByMode ==
  \A k \in Built :
    /\ (ImagePresent /\ call.modes[k] \in {"first_frame", "undefined"})
         => /\ OnInstance(call.bodies[k]) /\ ~InReferences(call.bodies[k])
            /\ call.bodies[k].instances[1].image = TheImage
    /\ (ImagePresent /\ call.modes[k] = "reference")
         => /\ InReferences(call.bodies[k]) /\ ~OnInstance(call.bodies[k])
            /\ Len(call.bodies[k].parameters.referenceImages) = 1
            /\ call.bodies[k].parameters.referenceImages[1].image = TheImage
    /\ \A j \in Built :
         (call.modes[j] = call.modes[k]
            \/ {call.modes[j], call.modes[k]} = {"first_frame", "undefined"})
           => call.bodies[j] = call.bodies[k]

\* C25 witness: an image was placed in first_frame mode, then in reference
\* mode, then in first_frame mode again.
C25_Witness ==
  /\ call.fn = "buildVeoRequestBody" /\ ImagePresent
  /\ call.modes = <<"first_frame", "reference", "first_frame">>
  /\ Len(call.bodies) = 3
  /\ OnInstance(call.bodies[1]) /\ InReferences(call.bodies[2])
  /\ call.bodies[3] = call.bodies[1] /\ call.bodies[2] # call.bodies[1]

\* C26: a body carries the prompt; it carries the image, in one of the two
\* places, iff includeImage is not false and imageData and mimeType are both
\* present; numberOfVideos is in parameters iff it is a positive integer and
\* personGeneration iff it was provided, each with the value given.
C26_ImageOnlyWhenComplete ==
  \A k \in Built :
    LET body == call.bodies[k] IN
    /\ body.instances[1].prompt = call.args.prompt
    /\ Len(body.instances) = 1
    /\ (OnInstance(body) \/ InReferences(body)) <=> ImagePresent
    /\ ~(OnInstance(body) /\ InReferences(body))
    /\ "numberOfVideos" \in DOMAIN body.parameters
         <=> (call.args.numberOfVideos.isInteger /\ call.args.numberOfVideos.value > 0)
    /\ "numberOfVideos" \in DOMAIN body.parameters
         => body.parameters.numberOfVideos = call.args.numberOfVideos.value
    /\ "personGeneration" \in DOMAIN body.parameters <=> call.args.personGeneration # ""
    /\ "personGeneration" \in DOMAIN body.parameters
         => body.parameters.personGeneration = call.args.personGeneration

\* C26 witness: a body was built from imageData without a mimeType and with
\* numberOfVideos 0, and carries neither an image nor numberOfVideos, and a
\* second body of these arguments in reference mode carries no image either.
C26_Witness ==
  /\ call.fn = "buildVeoRequestBody"
  /\ call.args.includeImage = "true" /\ call.args.imageData # ""
  /\ call.args.mimeType = ""
  /\ call.args.numberOfVideos = Integer(0)
  /\ call.args.personGeneration # ""
  /\ Len(call.bodies) = 2 /\ call.modes[2] = "reference"
  /\ \A k \in 1..2 : ~OnInstance(call.bodies[k]) /\ ~InReferences(call.bodies[k])
  /\ DOMAIN call.bodies[1].parameters = {"aspectRatio", "resolution", "personGeneration"}
                                          \cup (IF call.args.seed.isInteger THEN {"seed"} ELSE {})


\* The url parameter is a gs://bucket/object URI.
IsGsUri(u) == u.kind = "text" /\ u.scheme = "gs" /\ Bucket(u) /\ ObjectPath(u)

\* The url parameter is an https URL on the Gemini host with a path under
\* /v1beta/files/.
IsFilesUrl(u) ==
  /\ u.kind = "text" /\ Lower(u.scheme) = "https" /\ Lower(u.host) = GeminiHost
  /\ StartsWithFiles(RemoveDotSegments(u.path, <<>>))

Downloaded == call.fn = "download" /\ call.answered

\* C28 as stated: a url parameter that is neither a gs URI nor a files URL of
\* the Gemini host is answered 400 without an upstream request.
C28_OtherUrlsAnswered400 ==
  (Downloaded /\ ~IsGsUri(call.url) /\ ~IsFilesUrl(call.url))
    => call.status = 400 /\ call.requests = <<>>

\* C28 amended: an upstream request is made only for a gs URI, to the storage
\* host with a bearer token and without the API key, or for a files URL of
\* the Gemini host, to that host with the API key; with GEMINI_API_KEY
\* configured every other url parameter is answered 400, and without it every
\* request is answered 500; neither makes an upstream request.
C28_DownloadAllowList ==
  Downloaded =>
    /\ \A k \in 1..Len(call.requests) :
         LET request == call.requests[k] IN
         \/ /\ IsGsUri(call.url) /\ request.host = StorageHost
            /\ request.bearer /\ ~request.key
         \/ /\ IsFilesUrl(call.url) /\ request.host = GeminiHost
            /\ request.key /\ ~request.bearer /\ StartsWithFiles(request.path)
    /\ Len(call.requests) <= 1
    /\ (~IsGsUri(call.url) /\ ~IsFilesUrl(call.url))
         => /\ call.requests = <<>>
            /\ call.status = IF env.GEMINI_API_KEY THEN 400 ELSE 500
    /\ ~env.GEMINI_API_KEY => call.status = 500 /\ call.requests = <<>>

\* C28 witness: a URL of another host whose name starts with the Gemini
\* host's, with a path under /v1beta/files/, was answered 400 without a
\* request.
C28_Witness ==
  /\ Downloaded /\ env.GEMINI_API_KEY
  /\ call.url.scheme = "https"
  /\ call.url.host = "generativelanguage.googleapis.com.evil.example"
  /\ call.url.path = <<"v1beta", "files", "video">>
  /\ call.status = 400 /\ call.requests = <<>>


\* C27: sanitizing a sanitized text leaves it as it is.
C27_SanitizeIdempotent ==
  (call.fn = "sanitizePrompt" /\ call.passes = 2) => call.text = call.previous


\* The text at positions i.. of the message starts with the word.
HasAt(message, i, word) ==
  /\ i + Len(word) - 1 <= Len(message)
  /\ \A x \in 1..Len(word) : message[i + x - 1] = word[x]

\* The first position from i on that holds no white space.
AfterSpaces(message, i) ==
  IF \E k \in i..Len(message) : message[k] \notin {" ", "\n"}
  THEN CHOOSE k \in i..Len(message) :
         /\ message[k] \notin {" ", "\n"}
         /\ \A x \in i..(k - 1) : message[x] \in {" ", "\n"}
  ELSE Len(message) + 1

\* The names f for which the message reads ...`f` isn't supported...
BacktickedNames(message) ==
  LET Graves == {i \in 1..Len(message) : message[i] = Grave} IN
  {SubSeq(message, p[1] + 1, p[2] - 1) :
     p \in {q \in Graves \X Graves :
        /\ q[1] + 1 < q[2]
        /\ \A x \in Graves : ~(q[1] < x /\ x < q[2])
        /\ AfterSpaces(message, q[2] + 1) > q[2] + 1
        /\ HasAt(message, AfterSpaces(message, q[2] + 1),
                 <<"i", "s", "n", "'", "t", " ", "s", "u", "p", "p", "o", "r", "t", "e", "d">>)}}

\* The message says: for personGeneration is currently not supported, with
\* any white space after "for" and after "personGeneration".
SaysPersonGeneration(message) ==
  \E i \in 1..Len(message) :
    /\ HasAt(message, i, <<"f", "o", "r">>)
    /\ LET j == AfterSpaces(message, i + 3) IN
       /\ j > i + 3
       /\ HasAt(message, j, <<"p", "e", "r", "s", "o", "n", "G", "e", "n", "e", "r", "a", "t", "i", "o", "n">>)
       /\ LET k == AfterSpaces(message, j + 16) IN
          /\ k > j + 16
          /\ HasAt(message, k, <<"i", "s", " ", "c", "u", "r", "r", "e", "n", "t", "l", "y", " ", "n", "o", "t", " ", "s", "u", "p", "p", "o", "r", "t", "e", "d">>)

\* The message names one of the four fields as a word and, later on the
\* same line, says not supported.
SaysGeneric(message) ==
  \E name \in {<<"p", "e", "r", "s", "o", "n", "G", "e", "n", "e", "r", "a", "t", "i", "o", "n">>,
               <<"n", "u", "m", "b", "e", "r", "O", "f", "V", "i", "d", "e", "o", "s">>,
               <<"a", "s", "p", "e", "c", "t", "R", "a", "t", "i", "o">>,
               <<"r", "e", "s", "o", "l", "u", "t", "i", "o", "n">>} :
    \E i \in 1..Len(message) :
      LET after == i + Len(name) IN
      /\ HasAt(message, i, name)
      /\ i = 1 \/ message[i - 1] \notin Letters
      /\ after > Len(message) \/ message[after] \notin Letters
      /\ \E k \in after..Len(message) :
           /\ HasAt(message, k, <<"n", "o", "t", " ", "s", "u", "p", "p", "o", "r", "t", "e", "d">>)
           /\ \A x \in after..(k - 1) : message[x] # "\n"

\* C31: getUnsupportedField returns the back-ticked name of a message
\* reading `<field>` isn't supported, whatever else the message says;
\* personGeneration for a message with the phrase "for personGeneration is
\* currently not supported" and no back-ticked name; and null for a
\* message that matches none of the patterns.
C31_UnsupportedFieldResult ==
  (call.fn = "getUnsupportedField" /\ call.returned) =>
    LET m == call.message IN
    /\ BacktickedNames(m) # {} =>
         call.result.matched /\ call.result.field \in BacktickedNames(m)
    /\ (BacktickedNames(m) = {} /\ SaysPersonGeneration(m)) =>
         call.result = Name(<<"p", "e", "r", "s", "o", "n", "G", "e", "n", "e", "r", "a", "t", "i", "o", "n">>)
    /\ (BacktickedNames(m) = {} /\ ~SaysPersonGeneration(m) /\ ~SaysGeneric(m)) =>
         call.result = Null

\* A message with a back-ticked name and the personGeneration phrase has
\* been answered.
C31_Witness ==
  /\ call.fn = "getUnsupportedField"
  /\ call.returned
  /\ BacktickedNames(call.message) # {}
  /\ SaysPersonGeneration(call.message)
  /\ call.result.matched


\* The request has an upstream call in flight, or sleeps between two
\* attempts of one.
InCall(rec) == rec.pc \in {"fetch", "vfetch", "sleep429", "backoff"}

\* The request is between the return of acquireVeoSlot and releaseVeoSlot.
HoldsSlot(rec) == rec.granted = 1 /\ rec.released = 0

\* C32: with limiting enabled, a request is inside an upstream call (the
\* prompt-model call, the upload, the start call, a status check) only
\* after its acquireVeoSlot returned and before its releaseVeoSlot, and
\* the gate counts every such request.
C32_CallsOnlyWhileHolding ==
  /\ \A r \in Requests : InCall(req[r]) => HoldsSlot(req[r])
  /\ Cardinality({r \in Requests : InCall(req[r])}) <= veoInFlight

\* A request waits in the queue while the holder of the slot checks the
\* status of its operation.
C32_Witness ==
  \E r, w \in Requests :
    /\ req[r].pc = "fetch"
    /\ req[r].ctx = "poll"
    /\ req[r].checks > 0
    /\ req[w].pc = "queued"
    /\ ~req[w].called


\* A waiter has been taken off the queue and has not been granted yet.
PendingWakeUp(rec) == rec.pc \in {"woken", "cooldownWoken"}

\* C33: no wake-up is lost.  Whenever a request waits in the queue, the
\* slots are all taken or a dequeued waiter is on its way to one; and, with
\* holders that give their slots back and cooldowns that end, every request
\* that waits in the queue is granted a slot in the end.
C33_NoLostWakeUp ==
  /\ [](veoQueue # <<>> =>
          \/ veoInFlight >= env.VEO_MAX_CONCURRENT
          \/ \E r \in Requests : PendingWakeUp(req[r]))
  /\ \A r \in Requests : (req[r].pc = "queued") ~> (req[r].granted = 1)

\* A request that waited in the queue behind another waiter holds a slot.
C33_Witness ==
  \E r \in Requests :
    /\ req[r].ticket = 2
    /\ req[r].granted = 1
    /\ req[r].released = 0


\* acquireVeoSlot has returned to the handler of the request.
Acquired(rec) ==
  IF env.VEO_MAX_CONCURRENT < 1
  THEN rec.pc # "idle" /\ rec.outcome # "rejected"
  ELSE rec.granted = 1

\* The request is between the return of acquireVeoSlot and its call of
\* releaseVeoSlot.
Between(rec) == Acquired(rec) /\ rec.released = 0

\* releaseVeoSlot is called by the handler of r in this step.
ReleasedNow(r) == req'[r].released > req[r].released

\* The calls of releaseVeoSlot: at most one per request, and only after
\* acquireVeoSlot returned.
OneReleasePerAcquire ==
  \A r \in Requests :
    /\ req[r].released <= 1
    /\ req[r].released = 1 => Acquired(req[r])

\* C34 as stated: one release per completed acquire, and veoInFlight is the
\* number of requests between acquire and release, whatever the limit.
C34_InFlightCountsHolders ==
  /\ OneReleasePerAcquire
  /\ veoInFlight = Cardinality({r \in Requests : Between(req[r])})

\* C34, with limiting enabled: one release per completed acquire (also
\* with limiting disabled), releaseVeoSlot is never called with the counter
\* at zero, and veoInFlight is the number of requests between acquire and
\* release.
C34_ReleasesBalanced ==
  /\ [](OneReleasePerAcquire)
  /\ [](env.VEO_MAX_CONCURRENT >= 1 =>
          veoInFlight = Cardinality({r \in Requests : Between(req[r])}))
  /\ [][\A r \in Requests :
          (ReleasedNow(r) /\ env.VEO_MAX_CONCURRENT >= 1) =>
            (veoInFlight >= 1 /\ veoInFlight' = veoInFlight - 1)]_vars

\* A request canceled while it waited has given its slot back on the early
\* path, another one at the end of its try block, and a third holds one.
C34_Witness ==
  \E a, b, c \in Requests :
    /\ req[a].canceledWaiting /\ req[a].released = 1 /\ ~req[a].called
    /\ req[b].called /\ req[b].released = 1
    /\ Between(req[c])
    /\ veoInFlight = 1


\* The operation of the request finished without an error.
DoneWithoutError(rec) ==
  rec.result \in ResultBodies \ {"pendingOp", "doneError", "badJson"}

\* C35: a response 200 "ready" carries a non-empty videoUrl, the one
\* extractVideoUrl finds in the response of an operation that finished
\* without an error; and a finished operation in whose response it finds
\* none is answered 500 "failed" (nothing is sent to a client that has
\* disconnected).
C35_ReadyCarriesVideoUrl ==
  \A r \in Requests :
    req[r].pc = "done" =>
      /\ (req[r].status = 200 /\ req[r].outcome = "ready") =>
           /\ Truthy(req[r].videoUrl)
           /\ req[r].videoUrl.type = "string"
           /\ req[r].result \in {"doneUri", "doneSamples", "doneFileName", "doneNested"}
           /\ req[r].videoUrl = extractVideoUrl(operationResponse(req[r].result))
      /\ (DoneWithoutError(req[r])
            /\ ~Truthy(extractVideoUrl(operationResponse(req[r].result)))) =>
           \/ req[r].status = 500 /\ req[r].outcome = "failed"
           \/ req[r].requestCanceled /\ req[r].status = 0

\* A request is answered "ready" with a URI that extractVideoUrl found by
\* its search through a response of unknown shape.
C35_Witness ==
  \E r \in Requests :
    /\ req[r].pc = "done"
    /\ req[r].result = "doneNested"
    /\ req[r].status = 200
    /\ req[r].videoUrl = Str("gs://bucket/video.mp4")


\* C36: a request is answered 429 "rate_limited" only if its failure was
\* an upstream rate limit, that is, the last answer it received from the
\* upstream had the status 429.
C36_RateLimitedOnlyAfter429 ==
  \A r \in Requests :
    (req[r].pc = "done" /\ req[r].status = 429 /\ req[r].outcome = "rate_limited") =>
      req[r].lastStatus = 429


\* The 32-bit FNV-1a hash of some inputs, reduced modulo 2147483647, worked
\* out by hand: of the empty string, "a", "|", "a|", "|||".
KnownSeed(input) ==
  CASE input = <<>> -> 18652614
    [] input = <<97>> -> 1678518573
    [] input = <<124>> -> 2030848572
    [] input = <<97, 124>> -> 1327827184
    [] input = <<124, 124, 124>> -> 335428155
    [] OTHER -> 0

\* C37: the seed of an input is an integer in 1..2147483646, the same at
\* every call; it is the FNV-1a hash modulo 2147483647 (the known values),
\* and 1 where that is zero.
C37_SeedInRange ==
  (call.fn = "stableSeedFromString" /\ call.calls >= 1) =>
    /\ call.seed >= 1
    /\ call.seed <= 2147483646
    /\ call.calls = 2 => call.seed = call.previous
    /\ KnownSeed(call.input) # 0 => call.seed = KnownSeed(call.input)
    /\ call.input \in {<<18639, 58843>>, <<61328, 36101>>} => call.seed = 1

\* The seed of an input whose hash is 2147483647 has been computed twice.
C37_Witness ==
  /\ call.fn = "stableSeedFromString"
  /\ call.calls = 2
  /\ call.input = <<18639, 58843>>
  /\ call.seed = 1

\* C38: the generation queue of the reader is single-flight: at most one
\* generateVideo request started by pumpQueue is in flight at a time,
\* generatingRef is true while one is, and it is true only while a call of
\* generateForPage has not come to its end.
InFlight == {c \in 1 .. Len(ui.calls) : ui.calls[c].phase = "pending"}
Unsettled == {c \in 1 .. Len(ui.calls) : ui.calls[c].phase # "settled"}
C38_SingleFlight ==
  ui.mounted =>
    /\ Cardinality(InFlight) <= 1
    /\ InFlight # {} => ui.generatingRef
    /\ ui.generatingRef => Unsettled # {}

\* C39: a generation that has been superseded leaves the state of its page
\* alone when it comes to its end, and a page that is ready carries the
\* generation id of its latest enqueuePage.
Ends(c) ==
  /\ c <= Len(ui.calls)
  /\ ui.calls[c].phase # "settled"
  /\ ui'.calls[c].phase = "settled"
SupersededLeavesState ==
  \A c \in Controllers :
     Ends(c) /\ Superseded(ui, c) /\ ui'.enqueues = ui.enqueues
       => ui'.pageStates[ui.calls[c].pageIndex] = ui.pageStates[ui.calls[c].pageIndex]
ReadyIsLatest ==
  \A p \in Pages :
     ui.pageStates[p].status = "ready"
       => ui.pageStates[p].generationId = ui.generationCountersRef[p]
C39_SupersededNeverOverwrites ==
  [][ui.mounted => SupersededLeavesState /\ ReadyIsLatest]_vars

====
